---- MODULE Spec2Model ----
(***************************************************************************)
(* Metadata enrichment pipeline of the photo journal (date-path).          *)
(*                                                                         *)
(* Spec     : one invocation of the edge function process-photo-metadata   *)
(*            on a body of unenriched photos.                              *)
(* SpecTwice: that invocation, then a second one on the same body.         *)
(* SpecNamed: the same handler on a body whose photos may carry a          *)
(*            locationName on entry.                                       *)
(* SpecClient: applyCoordinatesAndLocationLogic of PhotoUploadModal, the   *)
(*            client-side copy of the pipeline.                            *)
(* SpecAnonymous: process-photo-metadata on a request without albumId.     *)
(* SpecUpdate: one invocation of the edge function update-album-metadata   *)
(*            on the photos and day entries of an album.                   *)
(* SpecBatch: process-photo-metadata for an album that already has days.   *)
(* SpecTitle: the title of one day, by calculateDayTitle and by the edge   *)
(*            function update-day-titles.                                  *)
(* SpecJournal: the day entries of an album under runs of                  *)
(*            update-day-titles, day updates and titles saved by hand.     *)
(* SpecUpload: uploadFiles of PhotoUploadModal, then a pipeline run.       *)
(* SpecRetry: uploadFiles, invoked again after an upload has failed.       *)
(* SpecFair : process-photo-metadata on unnamed photos, with the steps of  *)
(*            the per-day loop taken whenever they are possible.           *)
(* SpecUndated: process-photo-metadata on a body with undated photos.      *)
(* SpecRerun: update-album-metadata, then a second run on the album.       *)
(* SpecDayView: the page of a day (DayView) over uploads and title runs.   *)
(*                                                                         *)
(* Encoding of values                                                      *)
(*   coordinates : integers, unit 1e-5 degree (48.1 deg = 4810000)         *)
(*   timestamps  : integers, DayLen ticks per UTC calendar day             *)
(*   day keys    : integers, the offset of the UTC date from 30 July 2025  *)
(*   place names : positive integers; 0 is the empty string ''            *)
(*   NULL        : undefined / null of an optional field                   *)
(***************************************************************************)
EXTENDS Integers, Sequences, FiniteSets, TLC

VARIABLES
    photos,          \* request body `photos`, mutated in place by the handler
    input,           \* the request body, files or rows as received (never written)
    pc,              \* position of the handler
    run,             \* 1 = first invocation, 2 = re-invocation on the same body
    photosByDay,     \* Map: day -> the photos of the day, by timestamp
    sortedDays,      \* the days, ascending
    albumCoords,     \* A1
    dayCoords,       \* A2 : day -> [latitude, longitude, coverPhotoId]
    coordsToResolve, \* B1 : keys still to be resolved, in insertion order
    dayCursor,       \* B2/B3 : position of `day` in sortedDays (1-based)
    iterations,      \* B3 loop counter
    dayLocations,    \* B2 : day -> location name
    dayEntries,      \* response.dayEntries
    locationCache,   \* Map<string,string> : coordKey -> name
    requests,        \* network log: keys of the fetches sent in this run
    answers,         \* the geocoding service: coordinate -> answer given
    firstResponse,   \* response of run 1, kept to compare with run 2
    inflight,        \* client: fetches sent and not yet answered
    albumId,         \* `albumId` of the request body
    day_entries,     \* table day_entries: the rows of the album
    photoUpdates,    \* update-album-metadata: photoUpdates
    updatedCount,    \* update-album-metadata: rows counted as updated
    rowsWritten,     \* rows that an update statement has in fact changed
    response,        \* the HTTP response of the edge function
    dbOps,           \* statements sent to the database by the invocation
    updates,         \* update-day-titles: `updates`, the titles to write
    handTitles,      \* titles saved by AlbumView.saveTitle, by row id
    dayTitle,        \* a title as generated for one day
    uploads,         \* upload dialog: where each file's upload stands
    view             \* DayView: the data its fetchData has set, if any

vars == <<photos, input, pc, run, photosByDay, sortedDays, albumCoords, dayCoords, coordsToResolve,
          dayCursor, iterations, dayLocations, dayEntries, locationCache,
          requests, answers, firstResponse, inflight,
          albumId, day_entries, photoUpdates, updatedCount, rowsWritten, response, dbOps,
          updates, handTitles, dayTitle, uploads, view>>

\* the state of the album's journal: title runs, edits by hand and uploads
journalVars == <<updates, handTitles, dayTitle, uploads, view>>

\* the state of the database-backed functions, which process-photo-metadata
\* and the upload dialog's applyCoordinatesAndLocationLogic never touch
albumVars == <<albumId, day_entries, photoUpdates, updatedCount, rowsWritten, response, dbOps,
               journalVars>>

-----------------------------------------------------------------------------
(* Bounds *)
MaxPhotos == 2       \* photos in a request body
MaxTime == 3         \* distinct timestamps: 0 .. MaxTime - 1
DayLen == 2          \* timestamps per UTC calendar day
ClientPhotos == 3    \* files of one selection in the upload dialog

NULL == -1000000000      \* undefined / null

\* JavaScript truthiness of an optional number or string: undefined, null,
\* 0 and '' are falsy.
Truthy(x) == x # NULL /\ x # 0

-----------------------------------------------------------------------------
(* Coordinates *)
DEFAULT_COORDS == [latitude |-> 4721840, longitude |-> -155360]

CoordA  == <<4810000, -150000>>   \* 48.1, -1.5, on the 4-decimal grid
CoordA2 == <<4810003, -150000>>   \* 3 m north of CoordA, same 4-decimal cell
CoordF  == <<4820000, -150000>>   \* 11 km north of CoordA
CoordZ  == <<0, -150000>>         \* on the equator: latitude exactly 0
NoCoord == <<NULL, NULL>>
NativeCoords == {CoordA2, CoordF, CoordZ}

Abs(x) == IF x < 0 THEN -x ELSE x

\* Number.prototype.toFixed(4) of a value given in 1e-5 degree: the value in
\* 1e-4 degree, rounded to nearest, halves away from zero.
ToFixed4(x) == IF x >= 0 THEN (x + 5) \div 10 ELSE -((-x + 5) \div 10)

\* `${latitude.toFixed(4)},${longitude.toFixed(4)}`
CoordKey(lat, lon) == <<ToFixed4(lat), ToFixed4(lon)>>

\* coordKey.split(',').map(Number): the key read back as a coordinate
KeyToCoord(key) == <<key[1] * 10, key[2] * 10>>

RECURSIVE IsqrtIn(_, _, _)
IsqrtIn(n, lo, hi) ==
    IF lo >= hi THEN lo
    ELSE LET mid == (lo + hi + 1) \div 2
         IN IF mid * mid <= n THEN IsqrtIn(n, mid, hi) ELSE IsqrtIn(n, lo, mid - 1)

Isqrt(n) == IsqrtIn(n, 0, 46340)

\* 1000 * cos(latitude), by whole degree, for the latitudes of the model
CosMilli(lat) ==
    LET deg == Abs(lat) \div 100000
    IN IF deg = 0 THEN 1000 ELSE IF deg = 47 THEN 682 ELSE IF deg = 48 THEN 669
       ELSE 1000

\* Haversine distance in metres (the code returns km).  For differences under
\* one degree the formula is evaluated for small angles,
\*   R * c = R * sqrt(dLat^2 + cos(lat1) cos(lat2) dLon^2),  R*pi/180 = 111.2 km,
\* in decametres to stay within 32 bits; beyond one degree the distance is
\* above every threshold of the program and the value saturates.
calculateHaversineDistance(lat1, lon1, lat2, lon2) ==
    LET dLat == Abs(lat2 - lat1)
        dLon == Abs(lon2 - lon1)
    IN IF dLat >= 100000 \/ dLon >= 100000 THEN 60000
       ELSE LET y == (dLat * 1112) \div 10000
                x == (dLon * 1112) \div 10000
                xx == ((x * CosMilli(lat1)) \div 1000) * ((x * CosMilli(lat2)) \div 1000)
            IN 10 * Isqrt(y * y + xx)

-----------------------------------------------------------------------------
(* Sequences *)
Range(s) == {s[i] : i \in 1..Len(s)}

RECURSIVE SetToSortedSeq(_)
SetToSortedSeq(S) ==
    IF S = {} THEN << >>
    ELSE LET m == CHOOSE x \in S : \A y \in S : x <= y
         IN <<m>> \o SetToSortedSeq(S \ {m})

\* seq without the later occurrences of a value (insertion order of a Set)
RECURSIVE Dedup(_)
Dedup(s) ==
    IF s = << >> THEN << >>
    ELSE LET init == Dedup(SubSeq(s, 1, Len(s) - 1))
             last == s[Len(s)]
         IN IF last \in Range(init) THEN init ELSE Append(init, last)

-----------------------------------------------------------------------------
(* Day grouping.  The arrays of the code hold references to the objects of *)
(* `photos`; the model holds the positions of those objects in `photos`.   *)

\* new Date(photo.date).toISOString().split('T')[0]
DayKey(date) == date \div DayLen

\* indices of S ordered by timestamp; Array.prototype.sort is stable
RECURSIVE SortByDate(_, _)
SortByDate(ps, S) ==
    IF S = {} THEN << >>
    ELSE LET m == CHOOSE i \in S : \A j \in S :
                      \/ ps[i].date < ps[j].date
                      \/ ps[i].date = ps[j].date /\ i <= j
         IN <<m>> \o SortByDate(ps, S \ {m})

\* mutant: the filter tests the numeric timestamp, and drops timestamp 0
PhotosWithDateTruthy(ps) == SortByDate(ps, {i \in 1..Len(ps) : Truthy(ps[i].date)})

\* photos.filter(p => p.date).sort(...): date is a string of the request
\* body, falsy only when absent
PhotosWithDate(ps) == SortByDate(ps, {i \in 1..Len(ps) : ps[i].date # NULL})

PhotosOfDay(ps, day) ==
    SelectSeq(PhotosWithDate(ps), LAMBDA i : DayKey(ps[i].date) = day)

SortedDays(ps) == SetToSortedSeq({DayKey(ps[i].date) : i \in Range(PhotosWithDate(ps))})

\* p.latitude && p.longitude
HasCoords(p) == Truthy(p.latitude) /\ Truthy(p.longitude)

\* the members of seq (photo positions) whose photo has coordinates
WithCoords(ps, seq) == SelectSeq(seq, LAMBDA i : HasCoords(ps[i]))

-----------------------------------------------------------------------------
(* A1 - album coordinates *)
A1AlbumCoords(ps) ==
    LET days == SortedDays(ps)
        hits == {k \in 2..Len(days) : WithCoords(ps, PhotosOfDay(ps, days[k])) # << >>}
    IN IF hits = {} THEN DEFAULT_COORDS
       ELSE LET k == CHOOSE x \in hits : \A y \in hits : x <= y
                firstPhotoWithCoords == WithCoords(ps, PhotosOfDay(ps, days[k]))[1]
            IN [latitude |-> ps[firstPhotoWithCoords].latitude,
                longitude |-> ps[firstPhotoWithCoords].longitude]

(* A2 - day coordinates and cover photo *)
A2DayCoord(ps, album, day) ==
    LET dayPhotos == PhotosOfDay(ps, day)
        photosWithCoords == WithCoords(ps, dayPhotos)
    IN IF Len(photosWithCoords) > 0
       THEN LET lastPhoto == photosWithCoords[Len(photosWithCoords)]
            IN [latitude |-> ps[lastPhoto].latitude,
                longitude |-> ps[lastPhoto].longitude,
                coverPhotoId |-> ps[lastPhoto].id]
       ELSE LET lastPhoto == dayPhotos[Len(dayPhotos)]
            IN [latitude |-> album.latitude,
                longitude |-> album.longitude,
                coverPhotoId |-> ps[lastPhoto].id]

A2DayCoords(ps, album) == [day \in Range(SortedDays(ps)) |-> A2DayCoord(ps, album, day)]

(* A3 - coordinates of the photos that have none *)
TimeDiff(ps, i, j) == Abs(ps[i].date - ps[j].date)

\* closestPhoto: the first of photosWithCoords with the least time difference
ClosestPhoto(ps, i, photosWithCoords) ==
    LET k == CHOOSE x \in 1..Len(photosWithCoords) :
                 \A y \in 1..Len(photosWithCoords) :
                     \/ TimeDiff(ps, i, photosWithCoords[x]) < TimeDiff(ps, i, photosWithCoords[y])
                     \/ /\ TimeDiff(ps, i, photosWithCoords[x]) = TimeDiff(ps, i, photosWithCoords[y])
                        /\ x <= y
    IN photosWithCoords[k]

\* mutant: no fallback to the day coordinate when no photo of the day has
\* coordinates
A3PhotoNoFallback(ps, i, dc, album) ==
    IF ps[i].date # NULL /\ (~Truthy(ps[i].latitude) \/ ~Truthy(ps[i].longitude))
    THEN LET dayKey == DayKey(ps[i].date)
             dayPhotos == SelectSeq([k \in 1..Len(ps) |-> k],
                              LAMBDA j : ps[j].date # NULL /\ DayKey(ps[j].date) = dayKey)
             photosWithCoords == WithCoords(ps, dayPhotos)
         IN IF Len(photosWithCoords) > 0
            THEN LET closestPhoto == ClosestPhoto(ps, i, photosWithCoords)
                 IN [ps EXCEPT ![i].latitude = ps[closestPhoto].latitude,
                               ![i].longitude = ps[closestPhoto].longitude]
            ELSE ps
    ELSE ps

\* one call of the forEach callback, on photos[i]; ps is the array as the
\* earlier callbacks left it
A3Photo(ps, i, dc, album) ==
    IF ps[i].date # NULL /\ (~Truthy(ps[i].latitude) \/ ~Truthy(ps[i].longitude))
    THEN LET dayKey == DayKey(ps[i].date)
             dayPhotos == SelectSeq([k \in 1..Len(ps) |-> k],
                              LAMBDA j : ps[j].date # NULL /\ DayKey(ps[j].date) = dayKey)
             photosWithCoords == WithCoords(ps, dayPhotos)
         IN IF Len(photosWithCoords) > 0
            THEN LET closestPhoto == ClosestPhoto(ps, i, photosWithCoords)
                 IN [ps EXCEPT ![i].latitude = ps[closestPhoto].latitude,
                               ![i].longitude = ps[closestPhoto].longitude]
            ELSE LET coords == IF dayKey \in DOMAIN dc THEN dc[dayKey] ELSE album
                 IN [ps EXCEPT ![i].latitude = coords.latitude,
                               ![i].longitude = coords.longitude]
    ELSE ps

RECURSIVE A3From(_, _, _, _)
A3From(ps, i, dc, album) ==
    IF i > Len(ps) THEN ps ELSE A3From(A3Photo(ps, i, dc, album), i + 1, dc, album)

A3Backfill(ps, dc, album) == A3From(ps, 1, dc, album)

\* the array as the callbacks on photos[1] .. photos[n] left it
RECURSIVE A3Prefix(_, _, _, _)
A3Prefix(ps, n, dc, album) ==
    IF n = 0 THEN ps ELSE A3Photo(A3Prefix(ps, n - 1, dc, album), n, dc, album)

\* what the callback on photos[i] reads the coordinate from: closestPhoto
\* (a position of photos), 0 for the day coordinate, NULL when it writes
\* nothing
A3Source(ps, i, dc, album) ==
    LET now == A3Prefix(ps, i - 1, dc, album)
    IN IF now[i].date # NULL /\ (~Truthy(now[i].latitude) \/ ~Truthy(now[i].longitude))
       THEN LET dayKey == DayKey(now[i].date)
                dayPhotos == SelectSeq([k \in 1..Len(now) |-> k],
                                 LAMBDA j : now[j].date # NULL /\ DayKey(now[j].date) = dayKey)
                photosWithCoords == WithCoords(now, dayPhotos)
            IN IF Len(photosWithCoords) > 0
               THEN ClosestPhoto(now, i, photosWithCoords)
               ELSE 0
       ELSE NULL

\* B1 - the Set coordsToResolve, in insertion order
B1CoordsToResolve(ps, dc) ==
    LET days == SortedDays(ps)
    IN Dedup([k \in 1..Len(days) |-> CoordKey(dc[days[k]].latitude, dc[days[k]].longitude)])

-----------------------------------------------------------------------------
(* The reverse-geocoding service and reverseGeocode *)

\* the place label the service has for a coordinate (first two components
\* of display_name)
PlaceName(c) ==
    IF c = CoordA THEN 1 ELSE IF c = CoordA2 THEN 2 ELSE IF c = CoordF THEN 3 ELSE 4

\* what a fetch for coordinate c may bring back: a label, or nothing (a
\* timeout, a non-2xx status, a payload without display_name).  The service
\* gives the same answer to the same coordinate: the first answer is kept.
Outcomes(ans, c) == IF c \in DOMAIN ans THEN {ans[c]} ELSE {NULL, PlaceName(c)}

\* locationCache.has(coordKey)
CacheHas(cache, lat, lon) == CoordKey(lat, lon) \in DOMAIN cache

\* what the fetch of a call reverseGeocode(lat, lon) may bring back; a call
\* answered by the cache fetches nothing
FetchOutcomes(cache, ans, lat, lon) ==
    IF CacheHas(cache, lat, lon) THEN {NULL} ELSE Outcomes(ans, <<lat, lon>>)

\* the value reverseGeocode(lat, lon) returns when the fetch, if one is
\* needed, brings back r
GeocodeResult(cache, lat, lon, r) ==
    IF CacheHas(cache, lat, lon) THEN cache[CoordKey(lat, lon)] ELSE r

\* locationCache after the call: only a resolved name is stored
CacheAfter(cache, lat, lon, r) ==
    IF CacheHas(cache, lat, lon) \/ r = NULL THEN cache
    ELSE (CoordKey(lat, lon) :> r) @@ cache

\* the network log after the call: a cache hit sends nothing
RequestsAfter(reqs, cache, lat, lon) ==
    IF CacheHas(cache, lat, lon) THEN reqs ELSE Append(reqs, CoordKey(lat, lon))

AnswersAfter(ans, cache, lat, lon, r) ==
    IF CacheHas(cache, lat, lon) \/ <<lat, lon>> \in DOMAIN ans THEN ans
    ELSE (<<lat, lon>> :> r) @@ ans

\* reverseGeocode called by a handler that awaits it: r is what the fetch
\* brings back, result the value returned
ReverseGeocode(lat, lon, r) ==
    /\ locationCache' = CacheAfter(locationCache, lat, lon, r)
    /\ requests' = RequestsAfter(requests, locationCache, lat, lon)
    /\ answers' = AnswersAfter(answers, locationCache, lat, lon, r)

-----------------------------------------------------------------------------
(* process-photo-metadata: the request *)
B3MaxIterations == 5
ProximityMetres == 5000

EntryNames == {NULL, 9}
Timestamps == 0..(MaxTime - 1)

PhotoOf(i, date, c, name) ==
    [id |-> i, date |-> date, latitude |-> c[1], longitude |-> c[2],
     locationName |-> name, dayTitle |-> << >>]

\* request bodies: every photo has an optional date, optional coordinates
\* (both or none) and a locationName among names
Batches(names) ==
    UNION {[1..n -> (Timestamps \cup {NULL}) \X (NativeCoords \cup {NoCoord}) \X names]
           : n \in 0..MaxPhotos}

NoResponse == [photos |-> << >>, dayEntries |-> << >>, albumCoords |-> DEFAULT_COORDS]

\* no title run, no edit by hand and no upload has happened
JournalIdle ==
    /\ updates = << >>
    /\ handTitles = << >>
    /\ dayTitle = << >>
    /\ uploads = << >>
    /\ view = << >>

\* no album function has been invoked; process-photo-metadata is sent an
\* albumId, which it only logs (line 56)
AlbumIdle ==
    /\ day_entries = << >>
    /\ photoUpdates = << >>
    /\ updatedCount = [photos |-> 0, dayEntries |-> 0]
    /\ rowsWritten = [photos |-> 0, dayEntries |-> 0]
    /\ response = NULL
    /\ dbOps = 0
    /\ JournalIdle

NoAlbum == albumId = 1 /\ AlbumIdle

\* the handler's own state when a request arrives
Arrival(batches) ==
    /\ \E b \in batches : photos = [i \in 1..Len(b) |-> PhotoOf(i, b[i][1], b[i][2], b[i][3])]
    /\ input = photos
    /\ pc = "request"
    /\ run = 1
    /\ photosByDay = << >>
    /\ sortedDays = << >>
    /\ albumCoords = DEFAULT_COORDS
    /\ dayCoords = << >>
    /\ coordsToResolve = << >>
    /\ dayCursor = 0
    /\ iterations = 0
    /\ dayLocations = << >>
    /\ dayEntries = << >>
    /\ locationCache = << >>
    /\ requests = << >>
    /\ answers = << >>
    /\ firstResponse = NoResponse
    /\ inflight = {}

InitWith(batches) == Arrival(batches) /\ NoAlbum

-----------------------------------------------------------------------------
(* process-photo-metadata: the handler, one action per stretch of code     *)
(* that ends at an await of reverseGeocode or at the response              *)

CacheGet(cache, key) == IF key \in DOMAIN cache THEN cache[key] ELSE NULL

\* photos of the day with coordinates and no location name, in day order
WithoutLocation(ps, dayPhotos) ==
    SelectSeq(dayPhotos, LAMBDA i : HasCoords(ps[i]) /\ ~Truthy(ps[i].locationName))

\* mutant: the loop test is iterations <= 5
AfterTurnSixTurns(ps, cursor, it) ==
    IF it <= B3MaxIterations /\ WithoutLocation(ps, photosByDay[sortedDays[cursor]]) # << >>
    THEN "B3"
    ELSE IF cursor < Len(sortedDays) THEN "B2" ELSE "titles"

\* where the handler stands once turn `it` of the B3 loop of the day at
\* `cursor` is over (it = 0: before the first turn): in the loop while
\* iterations < 5 and a photo is left without a name, else at the next day,
\* else at the titles
AfterTurn(ps, cursor, it) ==
    IF it < B3MaxIterations /\ WithoutLocation(ps, photosByDay[sortedDays[cursor]]) # << >>
    THEN "B3"
    ELSE IF cursor < Len(sortedDays) THEN "B2" ELSE "titles"

\* lines 55-230: parse, sort, group, A1, A2, A3, build coordsToResolve; or
\* the early return when no photo has a date
Serve ==
    /\ pc = "request"
    /\ IF Len(PhotosWithDate(photos)) = 0
       THEN /\ pc' = "done"
            /\ UNCHANGED <<photos, photosByDay, sortedDays, albumCoords, dayCoords,
                           coordsToResolve>>
       ELSE LET album == A1AlbumCoords(photos)
                dc == A2DayCoords(photos, album)
            IN /\ sortedDays' = SortedDays(photos)
               /\ photosByDay' = [day \in Range(SortedDays(photos)) |-> PhotosOfDay(photos, day)]
               /\ albumCoords' = album
               /\ dayCoords' = dc
               /\ photos' = A3Backfill(photos, dc, album)
               /\ coordsToResolve' = B1CoordsToResolve(photos, dc)
               /\ pc' = "B1"
    /\ UNCHANGED <<albumVars, input, run, dayCursor, iterations, dayLocations, dayEntries,
                   locationCache, requests, answers, firstResponse, inflight>>

\* lines 234-237: one turn of `for (const coordKey of coordsToResolve)`
ResolveAnchor ==
    /\ pc = "B1"
    /\ coordsToResolve # << >>
    /\ LET c == KeyToCoord(Head(coordsToResolve))
       IN \E r \in FetchOutcomes(locationCache, answers, c[1], c[2]) :
              ReverseGeocode(c[1], c[2], r)
    /\ coordsToResolve' = Tail(coordsToResolve)
    /\ IF Tail(coordsToResolve) = << >>
       THEN pc' = "B2" /\ dayCursor' = 1
       ELSE pc' = "B1" /\ dayCursor' = dayCursor
    /\ UNCHANGED <<albumVars, photos, input, run, photosByDay, sortedDays, albumCoords, dayCoords,
                   iterations, dayLocations, dayEntries, firstResponse, inflight>>

\* B2, lines 252-265: the photos of the day within the proximity threshold
\* of the day coordinate take the day's name
B2Photos(ps, dayPhotos, dayCoordinate, dayLocationName) ==
    [i \in 1..Len(ps) |->
        IF /\ i \in Range(dayPhotos)
           /\ HasCoords(ps[i])
           /\ calculateHaversineDistance(ps[i].latitude, ps[i].longitude,
                  dayCoordinate.latitude, dayCoordinate.longitude) < ProximityMetres
           /\ Truthy(dayLocationName)
        THEN [ps[i] EXCEPT !.locationName = dayLocationName]
        ELSE ps[i]]

\* lines 241-271 for day = sortedDays[dayCursor]: B2, and the first test of
\* the B3 loop
ApplyDayName ==
    /\ pc = "B2"
    /\ LET day == sortedDays[dayCursor]
           dayCoordinate == dayCoords[day]
           dayLocationName ==
               CacheGet(locationCache, CoordKey(dayCoordinate.latitude, dayCoordinate.longitude))
           named == B2Photos(photos, photosByDay[day], dayCoordinate, dayLocationName)
           next == AfterTurn(named, dayCursor, 0)
       IN /\ dayLocations' = IF Truthy(dayLocationName)
                             THEN (day :> dayLocationName) @@ dayLocations
                             ELSE dayLocations
          /\ photos' = named
          /\ pc' = next
          /\ dayCursor' = IF next = "B2" THEN dayCursor + 1 ELSE dayCursor
    /\ iterations' = 0
    /\ UNCHANGED <<albumVars, input, run, photosByDay, sortedDays, albumCoords, dayCoords,
                   coordsToResolve, dayEntries, locationCache, requests, answers,
                   firstResponse, inflight>>

\* lines 288-306: the name found for photo w, given to it and to the
\* unnamed photos of the day within the proximity threshold of it
B3Photos(ps, dayPhotos, w, photoLocationName) ==
    IF ~Truthy(photoLocationName) THEN ps
    ELSE [i \in 1..Len(ps) |->
            IF i = w THEN [ps[i] EXCEPT !.locationName = photoLocationName]
            ELSE IF /\ i \in Range(dayPhotos)
                    /\ HasCoords(ps[i])
                    /\ ~Truthy(ps[i].locationName)
                    /\ calculateHaversineDistance(ps[i].latitude, ps[i].longitude,
                           ps[w].latitude, ps[w].longitude) < ProximityMetres
                 THEN [ps[i] EXCEPT !.locationName = photoLocationName]
                 ELSE ps[i]]

\* B3, lines 271-309: one turn of the while loop, and the test that follows
ResolvePhoto ==
    /\ pc = "B3"
    /\ LET dayPhotos == photosByDay[sortedDays[dayCursor]]
           photoWithoutLocation == WithoutLocation(photos, dayPhotos)[1]
           lat == photos[photoWithoutLocation].latitude
           lon == photos[photoWithoutLocation].longitude
       IN \E r \in FetchOutcomes(locationCache, answers, lat, lon) :
            LET named == B3Photos(photos, dayPhotos, photoWithoutLocation,
                                  GeocodeResult(locationCache, lat, lon, r))
                next == AfterTurn(named, dayCursor, iterations + 1)
            IN /\ ReverseGeocode(lat, lon, r)
               /\ photos' = named
               /\ pc' = next
               /\ dayCursor' = IF next = "B2" THEN dayCursor + 1 ELSE dayCursor
    /\ iterations' = iterations + 1
    /\ UNCHANGED <<albumVars, input, run, photosByDay, sortedDays, albumCoords, dayCoords,
                   coordsToResolve, dayLocations, dayEntries, firstResponse, inflight>>

-----------------------------------------------------------------------------
(* Day titles, lines 314-347.  Day key 0 is Wednesday 30 July 2025, the     *)
(* 211th day of the year; `new Date(date + 'T00:00:00')` and its getDay,    *)
(* getDate and getMonth are the calendar of that year.                      *)
frenchDays == <<"dimanche", "lundi", "mardi", "mercredi", "jeudi", "vendredi", "samedi">>
frenchMonths == <<"janvier", "fevrier", "mars", "avril", "mai", "juin", "juillet",
                  "aout", "septembre", "octobre", "novembre", "decembre">>

MonthLengths == <<31, 28, 31, 30, 31, 30, 31, 31, 30, 31, 30, 31>>

\* <<month from 1, day of the month>> of the n-th day counted from month m
RECURSIVE CalendarDate(_, _)
CalendarDate(n, m) ==
    IF n <= MonthLengths[m] THEN <<m, n>> ELSE CalendarDate(n - MonthLengths[m], m + 1)

GetDay(day) == (3 + day) % 7
GetDate(day) == CalendarDate(211 + day, 1)[2]
GetMonth(day) == CalendarDate(211 + day, 1)[1] - 1

\* mutant: the location suffix is appended whether or not there is a name
DayTitleAlwaysSuffix(dayNumber, day, locationName) ==
    <<dayNumber, frenchDays[GetDay(day) + 1], GetDate(day),
      frenchMonths[GetMonth(day) + 1], locationName>>

\* the template literal, as the sequence of its parts
DayTitle(dayNumber, day, locationName) ==
    LET base == <<dayNumber, frenchDays[GetDay(day) + 1], GetDate(day),
                  frenchMonths[GetMonth(day) + 1]>>
    IN IF Truthy(locationName) THEN Append(base, locationName) ELSE base

DayEntryOf(index, day, dc, dl) ==
    LET locationName == IF day \in DOMAIN dl /\ Truthy(dl[day]) THEN dl[day] ELSE 0
    IN [date |-> day,
        coverPhotoId |-> dc[day].coverPhotoId,
        latitude |-> dc[day].latitude,
        longitude |-> dc[day].longitude,
        locationName |-> locationName,
        title |-> DayTitle(index, day, locationName)]

\* mutant: the title of the first day is put on every photo of the body
RespondTitlesAll ==
    /\ pc = "titles"
    /\ LET entries == [k \in 1..Len(sortedDays) |->
                          DayEntryOf(k, sortedDays[k], dayCoords, dayLocations)]
       IN /\ dayEntries' = entries
          /\ photos' = [i \in 1..Len(photos) |-> [photos[i] EXCEPT !.dayTitle = entries[1].title]]
    /\ pc' = "done"
    /\ UNCHANGED <<albumVars, input, run, photosByDay, sortedDays, albumCoords, dayCoords,
                   coordsToResolve, dayCursor, iterations, dayLocations, locationCache,
                   requests, answers, firstResponse, inflight>>

\* lines 314-360: the day entries, the dayTitle of the photos, the response
Respond ==
    /\ pc = "titles"
    /\ LET entries == [k \in 1..Len(sortedDays) |->
                          DayEntryOf(k, sortedDays[k], dayCoords, dayLocations)]
       IN /\ dayEntries' = entries
          /\ photos' = [i \in 1..Len(photos) |->
                          IF \E k \in 1..Len(sortedDays) : i \in Range(photosByDay[sortedDays[k]])
                          THEN [photos[i] EXCEPT !.dayTitle =
                                   entries[CHOOSE k \in 1..Len(sortedDays) :
                                               i \in Range(photosByDay[sortedDays[k]])].title]
                          ELSE photos[i]]
    /\ pc' = "done"
    /\ UNCHANGED <<albumVars, input, run, photosByDay, sortedDays, albumCoords, dayCoords,
                   coordsToResolve, dayCursor, iterations, dayLocations, locationCache,
                   requests, answers, firstResponse, inflight>>

\* mutant: locationCache is a module-level Map, kept from one invocation
\* to the next
ReinvokeWarmCache ==
    /\ pc = "done"
    /\ run = 1
    /\ firstResponse' = [photos |-> photos, dayEntries |-> dayEntries,
                         albumCoords |-> albumCoords]
    /\ run' = 2
    /\ pc' = "request"
    /\ photos' = input
    /\ photosByDay' = << >>
    /\ sortedDays' = << >>
    /\ albumCoords' = DEFAULT_COORDS
    /\ dayCoords' = << >>
    /\ coordsToResolve' = << >>
    /\ dayCursor' = 0
    /\ iterations' = 0
    /\ dayLocations' = << >>
    /\ dayEntries' = << >>
    /\ requests' = << >>
    /\ UNCHANGED <<albumVars, input, answers, inflight, locationCache>>

\* The same request body is posted again: a new invocation of the handler,
\* with its own photos, cache and locals (lines 55-62).
Reinvoke ==
    /\ pc = "done"
    /\ run = 1
    /\ firstResponse' = [photos |-> photos, dayEntries |-> dayEntries,
                         albumCoords |-> albumCoords]
    /\ run' = 2
    /\ pc' = "request"
    /\ photos' = input
    /\ photosByDay' = << >>
    /\ sortedDays' = << >>
    /\ albumCoords' = DEFAULT_COORDS
    /\ dayCoords' = << >>
    /\ coordsToResolve' = << >>
    /\ dayCursor' = 0
    /\ iterations' = 0
    /\ dayLocations' = << >>
    /\ dayEntries' = << >>
    /\ locationCache' = << >>
    /\ requests' = << >>
    /\ UNCHANGED <<albumVars, input, answers, inflight>>

Next ==
    \/ Serve
    \/ ResolveAnchor
    \/ ApplyDayName
    \/ ResolvePhoto
    \/ Respond

\* unenriched photos: no locationName on entry
Init == InitWith(Batches({NULL}))

\* one invocation
Spec == Init /\ [][Next]_vars

\* request bodies of dated photos, on the first or the second day
LoopBatches ==
    UNION {[1..n -> {0, DayLen} \X (NativeCoords \cup {NoCoord}) \X {NULL}] : n \in 1..MaxPhotos}

\* request bodies whose photos without a date may carry a locationName
UndatedBatches ==
    UNION {[1..n -> ({NULL} \X (NativeCoords \cup {NoCoord}) \X EntryNames)
                    \cup (Timestamps \X (NativeCoords \cup {NoCoord}) \X {NULL})]
           : n \in 0..MaxPhotos}

InitUndated == InitWith(UndatedBatches)

SpecUndated == InitUndated /\ [][Next]_vars

InitLoop == InitWith(LoopBatches)

\* every call of reverseGeocode returns (a fetch still pending after 8 s is
\* aborted, lines 85-95) and the handler goes on with the naming of the
\* days: the code of lines 241-310 takes its next step
SpecFair == InitLoop /\ [][Next]_vars /\ WF_vars(ApplyDayName) /\ WF_vars(ResolvePhoto)

\* one invocation, then a second one on the same request body
NextTwice ==
    \/ Next
    \/ Reinvoke

SpecTwice == Init /\ [][NextTwice]_vars

\* photos that may carry a locationName on entry
InitNamed == InitWith(Batches(EntryNames))

SpecNamed == InitNamed /\ [][Next]_vars

\* the handler invoked with a body that has photos and no albumId
InitAnonymous == Arrival(Batches({NULL})) /\ albumId = NULL /\ AlbumIdle

SpecAnonymous == InitAnonymous /\ [][Next]_vars

-----------------------------------------------------------------------------
(* PhotoUploadModal.applyCoordinatesAndLocationLogic, the client-side copy. *)
(* photos[i] is files[i].metadata.  A call of reverseGeocode that misses    *)
(* the cache sends its fetch at once and is suspended until the answer:     *)
(* inflight holds [coord, photo], photo = 0 for a call that is awaited and  *)
(* the position of the photo whose `then` callback waits for the name.      *)
ClientProximityMetres == 2000

\* processFileMetadata keeps coordinates only when both are truthy, and
\* sets no locationName
ClientBatches ==
    UNION {[1..n -> (Timestamps \cup {NULL}) \X {CoordA2, CoordF, NoCoord} \X {NULL}]
           : n \in 0..ClientPhotos}

InitClient == InitWith(ClientBatches)

\* A2, lines 553-568
ClientDayCoords(ps, album) ==
    [day \in Range(SortedDays(ps)) |->
        [latitude |-> A2DayCoord(ps, album, day).latitude,
         longitude |-> A2DayCoord(ps, album, day).longitude]]

\* A3, lines 570-578
ClientA3(ps, dc, album) ==
    [i \in 1..Len(ps) |->
        IF ps[i].date # NULL /\ (~Truthy(ps[i].latitude) \/ ~Truthy(ps[i].longitude))
        THEN LET dayKey == DayKey(ps[i].date)
                 coords == IF dayKey \in DOMAIN dc THEN dc[dayKey] ELSE album
             IN [ps[i] EXCEPT
                    !.latitude = IF ~Truthy(@) THEN coords.latitude ELSE @,
                    !.longitude = IF ~Truthy(@) THEN coords.longitude ELSE @]
        ELSE ps[i]]

\* B1, B2, lines 581-596: the album coordinate, then the day coordinates
\* whose key is new
ClientCoordsToResolve(ps, dc, album) ==
    LET days == SortedDays(ps)
        all == <<<<album.latitude, album.longitude>>>> \o
               [k \in 1..Len(days) |-> <<dc[days[k]].latitude, dc[days[k]].longitude>>]
    IN SelectSeq([k \in 1..Len(all) |->
                    IF \E j \in 1..(k - 1) : CoordKey(all[j][1], all[j][2]) = CoordKey(all[k][1], all[k][2])
                    THEN NoCoord ELSE all[k]],
                 LAMBDA c : c # NoCoord)

\* the calls of seq (coordinates) that miss the cache, each sending a fetch
Misses(cache, seq) == SelectSeq(seq, LAMBDA c : ~CacheHas(cache, c[1], c[2]))

KeysOf(seq) == [k \in 1..Len(seq) |-> CoordKey(seq[k][1], seq[k][2])]

\* lines 517-600: up to `await Promise.all(locationPromises)`
ClientServe ==
    /\ pc = "request"
    /\ IF Len(PhotosWithDate(photos)) = 0
       THEN /\ pc' = "done"
            /\ UNCHANGED <<photos, photosByDay, sortedDays, albumCoords, dayCoords,
                           requests, inflight>>
       ELSE LET album == A1AlbumCoords(photos)
                dc == ClientDayCoords(photos, album)
                sent == Misses(locationCache, ClientCoordsToResolve(photos, dc, album))
            IN /\ sortedDays' = SortedDays(photos)
               /\ photosByDay' = [day \in Range(SortedDays(photos)) |-> PhotosOfDay(photos, day)]
               /\ albumCoords' = album
               /\ dayCoords' = dc
               /\ photos' = ClientA3(photos, dc, album)
               /\ requests' = requests \o KeysOf(sent)
               /\ inflight' = {[coord |-> c, photo |-> 0] : c \in Range(sent)}
               /\ pc' = "anchors"
    /\ UNCHANGED <<albumVars, input, run, coordsToResolve, dayCursor, iterations, dayLocations,
                   dayEntries, locationCache, answers, firstResponse>>

\* lines 474-489 of a suspended call: the answer of its fetch arrives (or
\* the 5 s timer aborts it), a name is stored in the cache and returned;
\* the `then` callback of line 629 writes it on the photo
FetchAnswered(f) ==
    /\ f \in inflight
    /\ \E r \in Outcomes(answers, f.coord) :
        /\ locationCache' = IF r = NULL THEN locationCache
                            ELSE (CoordKey(f.coord[1], f.coord[2]) :> r) @@ locationCache
        /\ answers' = IF f.coord \in DOMAIN answers THEN answers
                      ELSE (f.coord :> r) @@ answers
        /\ photos' = IF f.photo # 0 /\ Truthy(r)
                     THEN [photos EXCEPT ![f.photo].locationName = r]
                     ELSE photos
    /\ inflight' = inflight \ {f}
    /\ pc' = IF pc = "album" THEN "apply" ELSE pc
    /\ UNCHANGED <<albumVars, input, run, photosByDay, sortedDays, albumCoords, dayCoords,
                   coordsToResolve, dayCursor, iterations, dayLocations, dayEntries,
                   requests, firstResponse>>

\* line 603, once Promise.all has settled:
\* `await reverseGeocode(albumCoords.latitude, albumCoords.longitude)`
ClientAlbumLookup ==
    /\ pc = "anchors"
    /\ inflight = {}
    /\ IF CacheHas(locationCache, albumCoords.latitude, albumCoords.longitude)
       THEN pc' = "apply" /\ UNCHANGED <<requests, inflight>>
       ELSE /\ pc' = "album"
            /\ requests' = Append(requests, CoordKey(albumCoords.latitude, albumCoords.longitude))
            /\ inflight' = {[coord |-> <<albumCoords.latitude, albumCoords.longitude>>,
                             photo |-> 0]}
    /\ UNCHANGED <<albumVars, photos, input, run, photosByDay, sortedDays, albumCoords, dayCoords,
                   coordsToResolve, dayCursor, iterations, dayLocations, dayEntries,
                   locationCache, answers, firstResponse>>

\* the photos the forEach of line 605 looks at
ClientLocated(p) == p.date # NULL /\ Truthy(p.latitude) /\ Truthy(p.longitude)

ClientFar(p) ==
    LET dayCoordinate == dayCoords[DayKey(p.date)]
    IN ~(calculateHaversineDistance(p.latitude, p.longitude,
             dayCoordinate.latitude, dayCoordinate.longitude) < ClientProximityMetres)

\* B4, lines 626-631: the photos whose own lookup is started and not awaited
ClientLookups ==
    SelectSeq([k \in 1..Len(photos) |-> k],
              LAMBDA i : /\ ClientLocated(photos[i])
                         /\ ClientFar(photos[i])
                         /\ ~Truthy(CacheGet(locationCache,
                                CoordKey(photos[i].latitude, photos[i].longitude))))

\* lines 605-639: the forEach, and the return of photos
ClientApply ==
    /\ pc = "apply"
    /\ photos' = [i \in 1..Len(photos) |->
          IF ~ClientLocated(photos[i]) THEN photos[i]
          ELSE LET dayCoordinate == dayCoords[DayKey(photos[i].date)]
                   dayLocationName == CacheGet(locationCache,
                       CoordKey(dayCoordinate.latitude, dayCoordinate.longitude))
                   photoLocationName == CacheGet(locationCache,
                       CoordKey(photos[i].latitude, photos[i].longitude))
               IN IF ~ClientFar(photos[i])
                  THEN IF Truthy(dayLocationName)
                       THEN [photos[i] EXCEPT !.locationName = dayLocationName]
                       ELSE photos[i]
                  ELSE IF Truthy(photoLocationName)
                       THEN [photos[i] EXCEPT !.locationName = photoLocationName]
                       ELSE photos[i]]
    /\ requests' = requests \o
          [k \in 1..Len(ClientLookups) |->
              CoordKey(photos[ClientLookups[k]].latitude, photos[ClientLookups[k]].longitude)]
    /\ inflight' = {[coord |-> <<photos[i].latitude, photos[i].longitude>>, photo |-> i]
                    : i \in Range(ClientLookups)}
    /\ pc' = "done"
    /\ UNCHANGED <<albumVars, input, run, photosByDay, sortedDays, albumCoords, dayCoords,
                   coordsToResolve, dayCursor, iterations, dayLocations, dayEntries,
                   locationCache, answers, firstResponse>>

NextClient ==
    \/ ClientServe
    \/ \E f \in inflight : FetchAnswered(f)
    \/ ClientAlbumLookup
    \/ ClientApply

SpecClient == InitClient /\ [][NextClient]_vars

-----------------------------------------------------------------------------
(* update-album-metadata.  `photos` holds the rows of table photos of the   *)
(* album, `input` the rows as they were when the function was invoked.      *)
UAM_DEFAULT_COORDS == [latitude |-> 4721837, longitude |-> -155362]
UamProximityMetres == 2000

\* a row of table photos (migration 20250816101028, lines 60-76)
PhotoRow(i, taken_at, c, location_name) ==
    [id |-> i, taken_at |-> taken_at, latitude |-> c[1], longitude |-> c[2],
     location_name |-> location_name]

\* a row of table day_entries (lines 79-93), as the upload dialog inserts it
DayRow(i, date) ==
    [id |-> i, date |-> date, title |-> <<"Photos du", date>>, description |-> NULL,
     latitude |-> NULL, longitude |-> NULL, location_name |-> NULL]

\* the day_entries rows of a set of dates, one row per date
DayRows(dates) ==
    LET days == SetToSortedSeq(dates)
    IN [k \in 1..Len(days) |-> DayRow(k, days[k])]

Days == {DayKey(t) : t \in Timestamps}

\* the rows read by line 92, under the field names that the operators of
\* the grouping and of A2 use
Dated(rows) ==
    [i \in 1..Len(rows) |->
        [id |-> rows[i].id, date |-> rows[i].taken_at, latitude |-> rows[i].latitude,
         longitude |-> rows[i].longitude, locationName |-> rows[i].location_name]]

\* A1, lines 139-153
UamAlbumCoords(ps) ==
    LET days == SortedDays(ps)
        hits == {k \in 2..Len(days) : WithCoords(ps, PhotosOfDay(ps, days[k])) # << >>}
    IN IF hits = {} THEN UAM_DEFAULT_COORDS
       ELSE LET k == CHOOSE x \in hits : \A y \in hits : x <= y
                firstPhotoWithCoords == WithCoords(ps, PhotosOfDay(ps, days[k]))[1]
            IN [latitude |-> ps[firstPhotoWithCoords].latitude,
                longitude |-> ps[firstPhotoWithCoords].longitude]

\* A2, lines 155-170
UamDayCoords(ps, album) ==
    [day \in Range(SortedDays(ps)) |->
        LET photosWithCoords == WithCoords(ps, PhotosOfDay(ps, day))
        IN IF Len(photosWithCoords) > 0
           THEN LET lastPhoto == photosWithCoords[Len(photosWithCoords)]
                IN [latitude |-> ps[lastPhoto].latitude, longitude |-> ps[lastPhoto].longitude]
           ELSE album]

\* A3, lines 175-217: the update pushed for photo i of photosWithDate
UamPhotoUpdate(ps, i, dc, album) ==
    IF ~Truthy(ps[i].latitude) \/ ~Truthy(ps[i].longitude)
    THEN LET dayKey == DayKey(ps[i].date)
             photosWithCoords == WithCoords(ps, PhotosOfDay(ps, dayKey))
         IN IF Len(photosWithCoords) > 0
            THEN LET closestPhoto == ClosestPhoto(ps, i, photosWithCoords)
                 IN [id |-> ps[i].id, latitude |-> ps[closestPhoto].latitude,
                     longitude |-> ps[closestPhoto].longitude, location_name |-> NULL]
            ELSE LET coords == IF dayKey \in DOMAIN dc THEN dc[dayKey] ELSE album
                 IN [id |-> ps[i].id, latitude |-> coords.latitude,
                     longitude |-> coords.longitude, location_name |-> NULL]
    ELSE [id |-> ps[i].id, latitude |-> ps[i].latitude, longitude |-> ps[i].longitude,
          location_name |-> NULL]

\* line 210: needsUpdate || !photo.location_name
UamPushes(ps, i) ==
    ~Truthy(ps[i].latitude) \/ ~Truthy(ps[i].longitude) \/ ~Truthy(ps[i].locationName)

UamPhotoUpdates(ps, dc, album) ==
    LET pushed == SelectSeq(PhotosWithDate(ps), LAMBDA i : UamPushes(ps, i))
    IN [k \in 1..Len(pushed) |-> UamPhotoUpdate(ps, pushed[k], dc, album)]

\* B3, lines 243-265: the day's name for an update less than 2 km from the
\* day coordinate
UamNamed(ps, dc, album, cache, update) ==
    LET dayKey == DayKey(ps[update.id].date)
        dayCoordinate == IF dayKey \in DOMAIN dc THEN dc[dayKey] ELSE album
        distance == calculateHaversineDistance(update.latitude, update.longitude,
                        dayCoordinate.latitude, dayCoordinate.longitude)
        dayLocationName == CacheGet(cache,
                               CoordKey(dayCoordinate.latitude, dayCoordinate.longitude))
    IN IF distance < UamProximityMetres /\ Truthy(dayLocationName)
       THEN [update EXCEPT !.location_name = dayLocationName]
       ELSE update

\* what the invocation leaves alone while it works on the album
UamFrame == <<input, run, coordsToResolve, iterations, dayLocations, dayEntries,
              firstResponse, albumId, journalVars>>

Reply(status, photosUpdated, dayEntriesUpdated) ==
    [status |-> status, photosUpdated |-> photosUpdated,
     dayEntriesUpdated |-> dayEntriesUpdated]

\* lines 76-240: the request, the select of the photos, A1-A3, and the
\* calls of reverseGeocode started by coordsToResolve.map
UamServe ==
    /\ pc = "request"
    /\ IF ~Truthy(albumId)
       THEN /\ response' = Reply(400, NULL, NULL)
            /\ pc' = "done"
            /\ UNCHANGED <<photosByDay, sortedDays, albumCoords, dayCoords, photoUpdates,
                           requests, inflight, dbOps>>
       ELSE /\ dbOps' = dbOps + 1
            /\ \E photosError \in BOOLEAN :
                 LET ps == Dated(photos)
                     album == UamAlbumCoords(ps)
                     dc == UamDayCoords(ps, album)
                     sent == Misses(locationCache, ClientCoordsToResolve(ps, dc, album))
                 IN IF photosError
                    THEN /\ response' = Reply(500, NULL, NULL)
                         /\ pc' = "done"
                         /\ UNCHANGED <<photosByDay, sortedDays, albumCoords, dayCoords,
                                        photoUpdates, requests, inflight>>
                    ELSE IF Len(photos) = 0 \/ Len(PhotosWithDate(ps)) = 0
                    THEN /\ response' = Reply(200, NULL, NULL)
                         /\ pc' = "done"
                         /\ UNCHANGED <<photosByDay, sortedDays, albumCoords, dayCoords,
                                        photoUpdates, requests, inflight>>
                    ELSE /\ sortedDays' = SortedDays(ps)
                         /\ photosByDay' = [day \in Range(SortedDays(ps)) |-> PhotosOfDay(ps, day)]
                         /\ albumCoords' = album
                         /\ dayCoords' = dc
                         /\ photoUpdates' = UamPhotoUpdates(ps, dc, album)
                         /\ requests' = requests \o KeysOf(sent)
                         /\ inflight' = {[coord |-> c, photo |-> 0, late |-> FALSE]
                                         : c \in Range(sent)}
                         /\ pc' = "anchors"
                         /\ UNCHANGED response
    /\ UNCHANGED <<UamFrame, photos, dayCursor, locationCache, answers, day_entries,
                   updatedCount, rowsWritten>>

\* lines 40-55 of a suspended call: the response of its fetch arrives, with
\* a name (stored and returned) or without (undefined is returned)
UamFetchAnswered(f) ==
    /\ pc = "anchors"
    /\ f \in inflight
    /\ \E r \in Outcomes(answers, f.coord) :
        /\ locationCache' = IF r = NULL THEN locationCache
                            ELSE (CoordKey(f.coord[1], f.coord[2]) :> r) @@ locationCache
        /\ answers' = IF f.coord \in DOMAIN answers THEN answers
                      ELSE (f.coord :> r) @@ answers
    /\ inflight' = inflight \ {f}
    /\ UNCHANGED <<UamFrame, photos, pc, photosByDay, sortedDays, albumCoords, dayCoords,
                   dayCursor, requests, day_entries, photoUpdates, updatedCount,
                   rowsWritten, response, dbOps>>

\* lines 30-32: 5 s after the call the timer runs `throw new Error('Timeout')`.
\* The callback runs outside the try block of the call and the fetch has no
\* abort signal: the exception is uncaught.  The runtime either ends the
\* worker, or reports the exception and goes on; the call stays suspended.
UamTimeout(f) ==
    /\ pc = "anchors"
    /\ f \in inflight
    /\ ~f.late
    /\ \/ pc' = "crashed" /\ inflight' = {}
       \/ pc' = pc /\ inflight' = (inflight \ {f}) \cup {[f EXCEPT !.late = TRUE]}
    /\ UNCHANGED <<UamFrame, photos, photosByDay, sortedDays, albumCoords, dayCoords,
                   dayCursor, locationCache, requests, answers, day_entries, photoUpdates,
                   updatedCount, rowsWritten, response, dbOps>>

\* the row of table photos after the update of lines 276-288
UamWritten(row, update) ==
    IF Truthy(update.location_name)
    THEN [row EXCEPT !.latitude = update.latitude, !.longitude = update.longitude,
                     !.location_name = update.location_name]
    ELSE [row EXCEPT !.latitude = update.latitude, !.longitude = update.longitude]

\* lines 242-304, once Promise.all has settled: the names of the updates and
\* the batch of row updates; the updates of `failed` come back with an error
UamWritePhotos ==
    /\ pc = "anchors"
    /\ inflight = {}
    /\ LET named == [k \in 1..Len(photoUpdates) |->
                        UamNamed(Dated(photos), dayCoords, albumCoords, locationCache,
                                 photoUpdates[k])]
       IN /\ photoUpdates' = named
          /\ \E failed \in SUBSET (1..Len(named)) :
               /\ photos' = [i \in 1..Len(photos) |->
                      IF \E k \in 1..Len(named) : named[k].id = i /\ k \notin failed
                      THEN UamWritten(photos[i],
                               named[CHOOSE k \in 1..Len(named) : named[k].id = i])
                      ELSE photos[i]]
               /\ updatedCount' = [updatedCount EXCEPT !.photos = Len(named) - Cardinality(failed)]
               /\ rowsWritten' = [rowsWritten EXCEPT !.photos = Len(named) - Cardinality(failed)]
          /\ dbOps' = dbOps + Len(named)
    /\ dayCursor' = 1
    /\ pc' = "days"
    /\ UNCHANGED <<UamFrame, photosByDay, sortedDays, albumCoords, dayCoords, locationCache,
                   requests, answers, inflight, day_entries, response>>

\* the row of table day_entries after the update of lines 322-335
UamDayWritten(row, coords, locationName) ==
    IF Truthy(locationName)
    THEN [row EXCEPT !.latitude = coords.latitude, !.longitude = coords.longitude,
                     !.location_name = locationName]
    ELSE [row EXCEPT !.latitude = coords.latitude, !.longitude = coords.longitude]

\* lines 306-354: one awaited update of day_entries per day, matching the
\* rows of the album with that date, and after the last one the response
UamWriteDay ==
    /\ pc = "days"
    /\ LET day == sortedDays[dayCursor]
           coords == dayCoords[day]
           locationName == CacheGet(locationCache, CoordKey(coords.latitude, coords.longitude))
           matched == {k \in 1..Len(day_entries) : day_entries[k].date = day}
       IN \E error \in BOOLEAN :
            LET counted == IF error THEN updatedCount
                           ELSE [updatedCount EXCEPT !.dayEntries = @ + 1]
            IN /\ day_entries' = IF error THEN day_entries
                                 ELSE [k \in 1..Len(day_entries) |->
                                          IF k \in matched
                                          THEN UamDayWritten(day_entries[k], coords, locationName)
                                          ELSE day_entries[k]]
               /\ rowsWritten' = IF error THEN rowsWritten
                                 ELSE [rowsWritten EXCEPT !.dayEntries = @ + Cardinality(matched)]
               /\ updatedCount' = counted
               /\ IF dayCursor = Len(sortedDays)
                  THEN /\ response' = Reply(200, counted.photos, counted.dayEntries)
                       /\ pc' = "done"
                  ELSE UNCHANGED <<response, pc>>
    /\ dbOps' = dbOps + 1
    /\ dayCursor' = dayCursor + 1
    /\ UNCHANGED <<UamFrame, photos, photosByDay, sortedDays, albumCoords, dayCoords,
                   locationCache, requests, answers, inflight, photoUpdates>>

\* the album: rows of photos, and a day_entries row for some of the dates
\* (the upload dialog does not look at the outcome of its insert, lines
\* 794-808 of PhotoUploadModal.tsx); the request with or without albumId
InitUpdate ==
    /\ \E b \in Batches(EntryNames) :
          photos = [i \in 1..Len(b) |-> PhotoRow(i, b[i][1], b[i][2], b[i][3])]
    /\ input = photos
    /\ \E dates \in SUBSET Days : day_entries = DayRows(dates)
    /\ albumId \in {NULL, 1}
    /\ pc = "request"
    /\ run = 1
    /\ photosByDay = << >>
    /\ sortedDays = << >>
    /\ albumCoords = UAM_DEFAULT_COORDS
    /\ dayCoords = << >>
    /\ coordsToResolve = << >>
    /\ dayCursor = 0
    /\ iterations = 0
    /\ dayLocations = << >>
    /\ dayEntries = << >>
    /\ locationCache = << >>
    /\ requests = << >>
    /\ answers = << >>
    /\ firstResponse = NoResponse
    /\ inflight = {}
    /\ photoUpdates = << >>
    /\ updatedCount = [photos |-> 0, dayEntries |-> 0]
    /\ rowsWritten = [photos |-> 0, dayEntries |-> 0]
    /\ response = NULL
    /\ dbOps = 0
    /\ JournalIdle

NextUpdate ==
    \/ UamServe
    \/ \E f \in inflight : UamFetchAnswered(f)
    \/ \E f \in inflight : UamTimeout(f)
    \/ UamWritePhotos
    \/ UamWriteDay

SpecUpdate == InitUpdate /\ [][NextUpdate]_vars

-----------------------------------------------------------------------------
(* update-album-metadata invoked a second time on the rows the first        *)
(* invocation left (UpdateAlbumMetadataButton.tsx, lines 15-53: the button  *)
(* can be pressed again).  `answers` keeps what the service said, so the    *)
(* second run is given the same answers; locationCache is a module-level    *)
(* Map (line 20), kept when the worker is still warm and empty otherwise.   *)
RerunPhotos == 3     \* photos of the album that is updated twice

\* albums of photos of one day, without a name, the day having its entry
InitRerun ==
    /\ \E n \in 1..RerunPhotos :
         \E b \in [1..n -> (0..(DayLen - 1)) \X {CoordA2, CoordF, NoCoord}] :
            /\ photos = [i \in 1..n |-> PhotoRow(i, b[i][1], b[i][2], NULL)]
            /\ day_entries = DayRows({DayKey(b[i][1]) : i \in 1..n})
    /\ input = photos
    /\ albumId = 1
    /\ pc = "request"
    /\ run = 1
    /\ photosByDay = << >>
    /\ sortedDays = << >>
    /\ albumCoords = UAM_DEFAULT_COORDS
    /\ dayCoords = << >>
    /\ coordsToResolve = << >>
    /\ dayCursor = 0
    /\ iterations = 0
    /\ dayLocations = << >>
    /\ dayEntries = << >>
    /\ locationCache = << >>
    /\ requests = << >>
    /\ answers = << >>
    /\ firstResponse = [photos |-> << >>, dayEntries |-> << >>, written |-> FALSE]
    /\ inflight = {}
    /\ photoUpdates = << >>
    /\ updatedCount = [photos |-> 0, dayEntries |-> 0]
    /\ rowsWritten = [photos |-> 0, dayEntries |-> 0]
    /\ response = NULL
    /\ dbOps = 0
    /\ JournalIdle

\* the first invocation has answered; the function is invoked again.
\* firstResponse keeps the rows as the first run left them, and whether it
\* answered 200 with all its updates done
UamReinvoke ==
    /\ pc = "done"
    /\ run = 1
    /\ firstResponse' = [photos |-> photos, dayEntries |-> day_entries,
                         written |-> /\ response.status = 200
                                     /\ rowsWritten.photos = Len(photoUpdates)
                                     /\ updatedCount.dayEntries = Len(sortedDays)
                                     /\ rowsWritten.dayEntries = Len(sortedDays)]
    /\ run' = 2
    /\ pc' = "request"
    /\ locationCache' \in {locationCache, << >>}
    /\ photosByDay' = << >>
    /\ sortedDays' = << >>
    /\ albumCoords' = UAM_DEFAULT_COORDS
    /\ dayCoords' = << >>
    /\ dayCursor' = 0
    /\ requests' = << >>
    /\ photoUpdates' = << >>
    /\ updatedCount' = [photos |-> 0, dayEntries |-> 0]
    /\ rowsWritten' = [photos |-> 0, dayEntries |-> 0]
    /\ response' = NULL
    /\ dbOps' = 0
    /\ UNCHANGED <<photos, day_entries, input, albumId, answers, inflight, coordsToResolve,
                   iterations, dayLocations, dayEntries, journalVars>>

NextRerun ==
    \/ NextUpdate
    \/ UamReinvoke

SpecRerun == InitRerun /\ [][NextRerun]_vars

-----------------------------------------------------------------------------
(* process-photo-metadata, called for an album that is not empty *)
\* a request for an album that already holds photos of other days:
\* day_entries has one row for each date of the album's earlier photos
InitBatch ==
    /\ Arrival(Batches({NULL}))
    /\ albumId = 1
    /\ \E dates \in SUBSET Days : day_entries = DayRows(dates)
    /\ photoUpdates = << >>
    /\ updatedCount = [photos |-> 0, dayEntries |-> 0]
    /\ rowsWritten = [photos |-> 0, dayEntries |-> 0]
    /\ response = NULL
    /\ dbOps = 0
    /\ JournalIdle

SpecBatch == InitBatch /\ [][Next]_vars

-----------------------------------------------------------------------------
(* Day titles as the application generates them: the edge function          *)
(* update-day-titles (src/unnamed/part_007) and calculateDayTitle           *)
(* (src/src/utils/dayTitleFormatter.ts).  A title is the sequence of the    *)
(* parts of its template literal; a date is its day key.                    *)
MaxDayNumber == 3    \* greatest day number given to the formatter

\* the PostgreSQL columns read as location_name: null, '' or a name
TitleNames == {NULL, 0, 9}

\* the dates of 2025
YearDates == (0 - 210)..154

\* the variables of process-photo-metadata's handler, at rest
handlerVars == <<photos, run, photosByDay, sortedDays, albumCoords, dayCoords, coordsToResolve,
                 dayCursor, iterations, dayLocations, dayEntries, locationCache,
                 requests, answers, firstResponse, inflight>>

HandlersIdle ==
    /\ photos = << >>
    /\ run = 1
    /\ photosByDay = << >>
    /\ sortedDays = << >>
    /\ albumCoords = DEFAULT_COORDS
    /\ dayCoords = << >>
    /\ coordsToResolve = << >>
    /\ dayCursor = 0
    /\ iterations = 0
    /\ dayLocations = << >>
    /\ dayEntries = << >>
    /\ locationCache = << >>
    /\ requests = << >>
    /\ answers = << >>
    /\ firstResponse = NoResponse
    /\ inflight = {}

\* day.cover_photo?.location_name: cover_photo is << >> when the day has none
CoverName(day) ==
    IF day.cover_photo = << >> THEN NULL ELSE day.cover_photo[1].location_name

\* mutant: the table of weekdays read as if 0 were Monday
calculateDayTitleMondayFirst(day, dayNumber) ==
    LET weekDay == frenchDays[((GetDay(day.date) + 6) % 7) + 1]
        name == CoverName(day)
        locationName == IF Truthy(name) THEN name ELSE 0
        base == <<"J", dayNumber, ", ", weekDay, " ", GetDate(day.date), " ",
                  frenchMonths[GetMonth(day.date) + 1]>>
    IN IF Truthy(locationName) THEN base \o <<", ", locationName>> ELSE base

\* dayTitleFormatter.ts, lines 23-37
calculateDayTitle(day, dayNumber) ==
    LET weekDay == frenchDays[GetDay(day.date) + 1]
        dayOfMonth == GetDate(day.date)
        month == frenchMonths[GetMonth(day.date) + 1]
        name == CoverName(day)
        locationName == IF Truthy(name) THEN name ELSE 0
        base == <<"J", dayNumber, ", ", weekDay, " ", dayOfMonth, " ", month>>
    IN IF Truthy(locationName) THEN base \o <<", ", locationName>> ELSE base

\* update-day-titles, lines 75-92: the update pushed for the day at `index`
\* (from 0) of an album's days sorted by date
TitleUpdate(day, index) ==
    LET dayNumber == index + 1
        weekDay == frenchDays[GetDay(day.date) + 1]
        dayOfMonth == GetDate(day.date)
        month == frenchMonths[GetMonth(day.date) + 1]
        locationName == IF Truthy(day.location_name) THEN day.location_name ELSE 0
        base == <<"J", dayNumber, ", ", weekDay, " ", dayOfMonth, " ", month>>
    IN [id |-> day.id,
        title |-> IF Truthy(locationName) THEN base \o <<", ", locationName>> ELSE base]

\* a day of any date, with or without a name and a cover photo, and a day
\* number
InitTitle ==
    /\ HandlersIdle
    /\ albumId = 1
    /\ AlbumIdle
    /\ pc = "input"
    /\ \E date \in YearDates, name \in TitleNames, dayNumber \in 1..MaxDayNumber,
          cover_photo \in {<< >>} \cup {<<[location_name |-> n]>> : n \in TitleNames} :
            input = [day |-> [id |-> 1, date |-> date, location_name |-> name,
                              cover_photo |-> cover_photo],
                     dayNumber |-> dayNumber]

\* DayView.tsx, line 258: the title shown above the photos of a day
ShowDayTitle ==
    /\ pc = "input"
    /\ dayTitle' = calculateDayTitle(input.day, input.dayNumber)
    /\ pc' = "shown"
    /\ UNCHANGED <<handlerVars, input, albumId, day_entries, photoUpdates, updatedCount,
                   rowsWritten, response, dbOps, updates, handTitles, uploads, view>>

\* update-day-titles, lines 75-92, for one day
GenerateDayTitle ==
    /\ pc = "input"
    /\ dayTitle' = TitleUpdate(input.day, input.dayNumber - 1).title
    /\ pc' = "generated"
    /\ UNCHANGED <<handlerVars, input, albumId, day_entries, photoUpdates, updatedCount,
                   rowsWritten, response, dbOps, updates, handTitles, uploads, view>>

NextTitle ==
    \/ ShowDayTitle
    \/ GenerateDayTitle

SpecTitle == InitTitle /\ [][NextTitle]_vars

-----------------------------------------------------------------------------
(* The journal of an album: the rows of day_entries under runs of           *)
(* update-day-titles (src/unnamed/part_007, lines 35-136), the day update   *)
(* of update-album-metadata (lines 319-340) and the user's saveTitle        *)
(* (src/src/pages/AlbumView.tsx, lines 156-177).  `input` keeps the rows as *)
(* they were at the start.                                                  *)
MaxDays == 2         \* dates of the album's journal

JournalDays == 0..(MaxDays - 1)

\* the title typed in the edit field, and a description typed in DayView
editingTitle == <<"Mon titre", 1>>
Descriptions == {NULL, 7}

\* sequences of distinct dates: the rows of the table in insertion order
RECURSIVE DateOrders(_)
DateOrders(dates) ==
    {<< >>} \cup UNION {{<<d>> \o rest : rest \in DateOrders(dates \ {d})} : d \in dates}

TitlesReply(status, totalProcessed, updated) ==
    [status |-> status, totalProcessed |-> totalProcessed, updated |-> updated]

InitJournal ==
    /\ HandlersIdle
    /\ albumId = 1
    /\ \E dates \in DateOrders(JournalDays) :
         \E names \in [1..Len(dates) -> EntryNames], descriptions \in [1..Len(dates) -> Descriptions] :
            day_entries = [k \in 1..Len(dates) |->
                              [DayRow(k, dates[k]) EXCEPT !.location_name = names[k],
                                                          !.description = descriptions[k]]]
    /\ input = day_entries
    /\ pc = "idle"
    /\ photoUpdates = << >>
    /\ updatedCount = [photos |-> 0, dayEntries |-> 0]
    /\ rowsWritten = [photos |-> 0, dayEntries |-> 0]
    /\ response = NULL
    /\ dbOps = 0
    /\ JournalIdle

JournalFrame == <<handlerVars, input, albumId, photoUpdates, updatedCount, rowsWritten, dbOps,
                  dayTitle, uploads, view>>

\* update-day-titles, lines 35-93: the select of the day entries, and the
\* title of every one of them, numbered in date order
TitlesRead ==
    /\ pc \in {"idle", "done"}
    /\ \E dayEntriesError \in BOOLEAN :
          IF dayEntriesError
          THEN /\ response' = TitlesReply(500, NULL, NULL)
               /\ updates' = << >>
               /\ pc' = "done"
          ELSE IF day_entries = << >>
          THEN /\ response' = TitlesReply(200, NULL, NULL)
               /\ updates' = << >>
               /\ pc' = "done"
          ELSE LET sorted == SortByDate(day_entries, DOMAIN day_entries)
               IN /\ updates' = [k \in 1..Len(sorted) |->
                                    TitleUpdate(day_entries[sorted[k]], k - 1)]
                  /\ pc' = "titles"
                  /\ UNCHANGED response
    /\ UNCHANGED <<JournalFrame, day_entries, handTitles>>

\* the row after `.update({ title })` of lines 105-108
TitleWritten(row, title) == [row EXCEPT !.title = title]

\* lines 97-136: the updates, sent together (a batch holds ten), each of
\* which may fail, and the response
TitlesWrite ==
    /\ pc = "titles"
    /\ \E failed \in SUBSET (1..Len(updates)) :
          /\ day_entries' =
                [k \in 1..Len(day_entries) |->
                    LET mine == {u \in 1..Len(updates) :
                                    u \notin failed /\ updates[u].id = day_entries[k].id}
                    IN IF mine = {} THEN day_entries[k]
                       ELSE TitleWritten(day_entries[k], updates[CHOOSE u \in mine : TRUE].title)]
          /\ response' = TitlesReply(200, Len(updates), Len(updates) - Cardinality(failed))
    /\ pc' = "done"
    /\ UNCHANGED <<JournalFrame, updates, handTitles>>

\* AlbumView.saveTitle, lines 156-177, when the update succeeds
SaveTitle(k) ==
    /\ k \in DOMAIN day_entries
    /\ day_entries[k].title # editingTitle
    /\ day_entries' = [day_entries EXCEPT ![k] = TitleWritten(@, editingTitle)]
    /\ handTitles' = [id \in DOMAIN handTitles \cup {day_entries[k].id} |->
                         IF id = day_entries[k].id THEN editingTitle ELSE handTitles[id]]
    /\ UNCHANGED <<JournalFrame, pc, updates, response>>

\* update-album-metadata, lines 319-340: the update of the album's rows of
\* one date with the coordinate and the name found for that day
JournalDayUpdate(day, locationName) ==
    /\ \E k \in DOMAIN day_entries : day_entries[k].date = day
    /\ day_entries' = [k \in 1..Len(day_entries) |->
                          IF day_entries[k].date = day
                          THEN UamDayWritten(day_entries[k], UAM_DEFAULT_COORDS, locationName)
                          ELSE day_entries[k]]
    /\ day_entries' # day_entries
    /\ UNCHANGED <<JournalFrame, pc, updates, response, handTitles>>

NextJournal ==
    \/ TitlesRead
    \/ TitlesWrite
    \/ \E k \in 1..MaxDays : SaveTitle(k)
    \/ \E day \in JournalDays, locationName \in EntryNames : JournalDayUpdate(day, locationName)

SpecJournal == InitJournal /\ [][NextJournal]_vars

-----------------------------------------------------------------------------
(* Uploads: uploadFiles of src/src/components/photo/PhotoUploadModal.tsx,   *)
(* lines 731-833.  files.map starts one asynchronous upload per file, and   *)
(* the uploads run interleaved at their awaits; `input` holds the files,    *)
(* `uploads` where each upload stands.  A run of update-album-metadata      *)
(* follows.                                                                 *)
MaxFiles == 2        \* files of one upload

\* lines 794-808, under the constraint UNIQUE(album_id, date) of the
\* migration (line 92): the table after the insert of a day entry
DayInserted(rows, date, error) ==
    IF error \/ \E k \in DOMAIN rows : rows[k].date = date
    THEN rows
    ELSE Append(rows, DayRow(Len(rows) + 1, date))

InitUpload ==
    /\ HandlersIdle
    /\ albumId = 1
    /\ \E n \in 1..MaxFiles : input \in [1..n -> Timestamps \cup {NULL}]
    /\ \E dates \in SUBSET Days : day_entries = DayRows(dates)
    /\ uploads = [f \in DOMAIN input |-> "photo"]
    /\ pc = "uploading"
    /\ photoUpdates = << >>
    /\ updatedCount = [photos |-> 0, dayEntries |-> 0]
    /\ rowsWritten = [photos |-> 0, dayEntries |-> 0]
    /\ response = NULL
    /\ dbOps = 0
    /\ updates = << >>
    /\ handTitles = << >>
    /\ dayTitle = << >>
    /\ view = << >>

UploadFrame == <<run, photosByDay, sortedDays, albumCoords, dayCoords, coordsToResolve,
                 dayCursor, iterations, dayLocations, dayEntries, locationCache,
                 requests, answers, firstResponse, inflight,
                 input, albumId, photoUpdates, updatedCount, rowsWritten, response, dbOps,
                 updates, handTitles, dayTitle, view>>

\* lines 737-783: the file is stored and its row inserted in table photos;
\* an error of either throws, which ends this upload
InsertPhoto(f) ==
    /\ f \in DOMAIN uploads
    /\ uploads[f] = "photo"
    /\ \E dbError \in BOOLEAN :
          IF dbError
          THEN /\ uploads' = [uploads EXCEPT ![f] = "thrown"]
               /\ UNCHANGED photos
          ELSE /\ photos' = Append(photos, PhotoRow(f, input[f], NoCoord, NULL))
               /\ uploads' = [uploads EXCEPT ![f] = IF input[f] # NULL THEN "select" ELSE "end"]
    /\ UNCHANGED <<UploadFrame, pc, day_entries>>

\* lines 784-792: the day entry of the photo's date is looked up
SelectDay(f) ==
    /\ f \in DOMAIN uploads
    /\ uploads[f] = "select"
    /\ LET existingDay == \E k \in DOMAIN day_entries : day_entries[k].date = DayKey(input[f])
       IN uploads' = [uploads EXCEPT ![f] = IF existingDay THEN "end" ELSE "insert"]
    /\ UNCHANGED <<UploadFrame, pc, photos, day_entries>>

\* lines 794-808: no entry was found, one is inserted; the outcome of the
\* insert is not looked at
InsertDay(f) ==
    /\ f \in DOMAIN uploads
    /\ uploads[f] = "insert"
    /\ \E error \in BOOLEAN : day_entries' = DayInserted(day_entries, DayKey(input[f]), error)
    /\ uploads' = [uploads EXCEPT ![f] = "end"]
    /\ UNCHANGED <<UploadFrame, pc, photos>>

\* line 816 and after: every upload has ended
UploadsSettled ==
    /\ pc = "uploading"
    /\ \A f \in DOMAIN uploads : uploads[f] \in {"end", "thrown"}
    /\ pc' = "uploaded"
    /\ UNCHANGED <<UploadFrame, photos, day_entries, uploads>>

\* update-album-metadata, lines 306-340, after the uploads: for every day
\* of the album's dated photos, the update of the rows of that date
PipelineRun ==
    /\ pc = "uploaded"
    /\ LET days == {DayKey(photos[i].taken_at) :
                        i \in {j \in DOMAIN photos : photos[j].taken_at # NULL}}
       IN day_entries' = [k \in 1..Len(day_entries) |->
                             IF day_entries[k].date \in days
                             THEN UamDayWritten(day_entries[k], UAM_DEFAULT_COORDS, NULL)
                             ELSE day_entries[k]]
    /\ pc' = "done"
    /\ UNCHANGED <<UploadFrame, photos, uploads>>

NextUpload ==
    \/ \E f \in 1..MaxFiles : InsertPhoto(f)
    \/ \E f \in 1..MaxFiles : SelectDay(f)
    \/ \E f \in 1..MaxFiles : InsertDay(f)
    \/ UploadsSettled
    \/ PipelineRun

SpecUpload == InitUpload /\ [][NextUpload]_vars

\* a failed uploadFiles keeps the selection: the catch of lines 826-828
\* shows a toast, and setFiles([]) of line 820 is not reached
MaxAttempts == 2     \* invocations of uploadFiles on one selection

\* lines 731-736 of the next invocation, on the files of the selection
\* that `files` still holds after an upload of the former one has thrown
RetryUpload ==
    /\ pc = "uploaded"
    /\ \E f \in DOMAIN uploads : uploads[f] = "thrown"
    /\ run < MaxAttempts
    /\ run' = run + 1
    /\ uploads' = [f \in DOMAIN input |-> "photo"]
    /\ pc' = "uploading"
    /\ UNCHANGED <<photosByDay, sortedDays, albumCoords, dayCoords, coordsToResolve,
                   dayCursor, iterations, dayLocations, dayEntries, locationCache,
                   requests, answers, firstResponse, inflight,
                   input, albumId, photoUpdates, updatedCount, rowsWritten, response, dbOps,
                   updates, handTitles, dayTitle, view, photos, day_entries>>

NextRetry ==
    \/ \E f \in 1..MaxFiles : InsertPhoto(f)
    \/ \E f \in 1..MaxFiles : SelectDay(f)
    \/ \E f \in 1..MaxFiles : InsertDay(f)
    \/ UploadsSettled
    \/ RetryUpload

SpecRetry == InitUpload /\ [][NextRetry]_vars

-----------------------------------------------------------------------------
(* The page of a day: fetchData and handleSetAsCover of                     *)
(* src/src/pages/DayView.tsx, over the tables as uploads (uploadFiles,      *)
(* PhotoUploadModal.tsx lines 757-808) and runs of update-day-titles leave  *)
(* them.  taken_at counts the seconds from the midnight, UTC, that starts   *)
(* date 0; a date counts days.                                              *)
MaxViewPhotos == 2   \* photos uploaded to the album

\* instants of upload: the first second of date 0, its last two seconds,
\* and the first second of date 1
ViewInstants == {0, 86398, 86399, 86400}

\* toISOString().split('T')[0]
IsoDate(taken_at) == taken_at \div 86400

\* update-album-metadata, lines 115-135: the photos that the grouping puts
\* under a date
GroupedUnder(rows, date) ==
    {rows[i] : i \in {j \in DOMAIN rows :
                         rows[j].taken_at # NULL /\ IsoDate(rows[j].taken_at) = date}}

\* DayView.tsx, lines 102-108: taken_at >= `${date}T00:00:00` and
\* taken_at < `${date}T23:59:59`
DayViewPhotos(rows, date) ==
    {rows[i] : i \in {j \in DOMAIN rows :
                         /\ rows[j].taken_at # NULL
                         /\ rows[j].taken_at >= date * 86400
                         /\ rows[j].taken_at < date * 86400 + 86399}}

\* PhotoUploadModal.tsx, lines 797-807: the day entry inserted for a photo
ViewDayRow(i, date, photo) ==
    [id |-> i, date |-> date,
     title |-> IF Truthy(photo.location_name) THEN <<"", photo.location_name>>
               ELSE <<"Photos du", date>>,
     description |-> NULL, latitude |-> photo.latitude, longitude |-> photo.longitude,
     location_name |-> photo.location_name, cover_photo_id |-> photo.id]

\* DayView.tsx, lines 79-117: what fetchData sets for the day entry dayId;
\* coverPhoto is set only when the entry has a cover_photo_id, and is then
\* the photo of that id among the photos listed, or null (<< >>)
DayViewData(entries, rows, dayId, coverPhoto) ==
    LET dayData == entries[CHOOSE k \in DOMAIN entries : entries[k].id = dayId]
        dayIndex == Cardinality({k \in DOMAIN entries : entries[k].date < dayData.date})
        photosData == DayViewPhotos(rows, dayData.date)
        found == {p \in photosData : p.id = dayData.cover_photo_id}
    IN [dayEntry |-> dayData,
        dayNumber |-> dayIndex + 1,
        photos |-> photosData,
        coverPhoto |-> IF dayData.cover_photo_id # NULL
                       THEN IF found = {} THEN << >> ELSE <<CHOOSE p \in found : TRUE>>
                       ELSE coverPhoto]

\* DayView.tsx, line 258: the title in the header of the page
HeaderTitle ==
    calculateDayTitle([date |-> view[1].dayEntry.date, cover_photo |-> view[1].coverPhoto],
                      view[1].dayNumber)

\* DayView.tsx, line 454: the title handed to the photo modal; dayEntry
\* has no cover_photo
ModalTitle ==
    calculateDayTitle([date |-> view[1].dayEntry.date, cover_photo |-> << >>],
                      view[1].dayNumber)

InitDayView ==
    /\ HandlersIdle
    /\ albumId = 1
    /\ AlbumIdle
    /\ input = << >>
    /\ pc = "idle"

DayViewFrame == <<run, photosByDay, sortedDays, albumCoords, dayCoords, coordsToResolve,
                  dayCursor, iterations, dayLocations, dayEntries, locationCache,
                  requests, answers, firstResponse, inflight,
                  input, albumId, photoUpdates, updatedCount, rowsWritten, dbOps,
                  updates, handTitles, dayTitle, uploads>>

\* uploadFiles, lines 731-833, for a selection of one file and without
\* error: the row of the photo, and the day entry of its date when the
\* album has none.  A photo with a date has a coordinate (the pipeline of
\* the dialog gives one to each) and may have a name.
UploadFile ==
    /\ Len(photos) < MaxViewPhotos
    /\ \E taken_at \in ViewInstants \cup {NULL}, name \in EntryNames :
          LET photoData == IF taken_at = NULL
                           THEN PhotoRow(Len(photos) + 1, NULL, NoCoord, NULL)
                           ELSE PhotoRow(Len(photos) + 1, taken_at, CoordF, name)
          IN /\ (taken_at = NULL => name = NULL)
             /\ photos' = Append(photos, photoData)
             /\ day_entries' =
                   IF taken_at = NULL
                      \/ \E k \in DOMAIN day_entries : day_entries[k].date = IsoDate(taken_at)
                   THEN day_entries
                   ELSE Append(day_entries,
                               ViewDayRow(Len(day_entries) + 1, IsoDate(taken_at), photoData))
    /\ UNCHANGED <<DayViewFrame, pc, response, view>>

\* DayView.tsx, lines 65-125, on the page of the day entry dayId
fetchData(dayId) ==
    /\ \E k \in DOMAIN day_entries : day_entries[k].id = dayId
    /\ view' = <<DayViewData(day_entries, photos, dayId,
                             IF view = << >> \/ view[1].dayEntry.id # dayId
                             THEN << >> ELSE view[1].coverPhoto)>>
    /\ UNCHANGED <<DayViewFrame, pc, response, photos, day_entries>>

\* DayView.tsx, lines 147-160: a photo of the page is made the cover of the
\* day, and the page is fetched again
handleSetAsCover(photoId) ==
    /\ view # << >>
    /\ \E p \in view[1].photos : p.id = photoId
    /\ LET dayId == view[1].dayEntry.id
       IN \E error \in BOOLEAN :
            IF error
            THEN UNCHANGED <<day_entries, view>>
            ELSE /\ day_entries' = [k \in 1..Len(day_entries) |->
                                       IF day_entries[k].id = dayId
                                       THEN [day_entries[k] EXCEPT !.cover_photo_id = photoId]
                                       ELSE day_entries[k]]
                 /\ view' = <<DayViewData(day_entries', photos, dayId, view[1].coverPhoto)>>
    /\ UNCHANGED <<DayViewFrame, pc, response, photos>>

NextDayView ==
    \/ UploadFile
    \/ \E dayId \in 1..MaxViewPhotos : fetchData(dayId)
    \/ \E photoId \in 1..MaxViewPhotos : handleSetAsCover(photoId)
    \/ TitlesRead
    \/ TitlesWrite

SpecDayView == InitDayView /\ [][NextDayView]_vars

-----------------------------------------------------------------------------
(* Properties *)

\* the handler is past the grouping and the coordinate stage (A1-A3)
Grouped == pc \in {"B1", "B2", "B3", "titles"} \/ (pc = "done" /\ sortedDays # << >>)

\* a coordinate read from the request: both parts present, 0 included
Native(p) == p.latitude # NULL /\ p.longitude # NULL

\* what a response tells of the enrichment of the photos
Enrichment(ps) ==
    [i \in 1..Len(ps) |-> <<ps[i].latitude, ps[i].longitude, ps[i].locationName>>]

\* the number of positions of seq that hold x
Occurrences(seq, x) == Cardinality({k \in 1..Len(seq) : seq[k] = x})

\* r is at the configured default coordinate
AtDefault(r) ==
    r.latitude = DEFAULT_COORDS.latitude /\ r.longitude = DEFAULT_COORDS.longitude

\* the photos with a native coordinate in the days of index >= 1
LaterNatives ==
    {i \in 1..Len(input) :
        /\ input[i].date # NULL
        /\ Native(input[i])
        /\ \E k \in 2..Len(sortedDays) : sortedDays[k] = input[i].date \div DayLen}

\* the photos of a day with a native coordinate
DayNatives(day) ==
    {i \in 1..Len(input) :
        input[i].date # NULL /\ input[i].date \div DayLen = day /\ Native(input[i])}

\* C1: within one run, no quantized key is the subject of two network
\* requests, whatever the requests brought back.
C1_OneRequestPerKey ==
    \A i, j \in 1..Len(requests) : i # j => requests[i] # requests[j]

\* C2: two calls of reverseGeocode for coordinates of one quantized key,
\* the second started before the first has stored its result, send one
\* network request: no two fetches for one key are in flight together.
C2_OneFetchInFlightPerKey ==
    \A f, g \in inflight :
        f # g => CoordKey(f.coord[1], f.coord[2]) # CoordKey(g.coord[1], g.coord[2])

\* C3: the second of two invocations on the same unenriched body, each with
\* a cold cache and the service answering alike, responds with the same day
\* entries and the same latitude, longitude and locationName of every photo.
C3_Idempotent ==
    (run = 2 /\ pc = "done") =>
        /\ dayEntries = firstResponse.dayEntries
        /\ Enrichment(photos) = Enrichment(firstResponse.photos)

\* a second invocation has responded, on a body with a photo that was given
\* coordinates and a name, for a day that was given a name
C3_Witness ==
    /\ run = 2 /\ pc = "done"
    /\ \E i \in 1..Len(photos) :
           ~Native(input[i]) /\ Truthy(photos[i].locationName)
    /\ \E k \in 1..Len(dayEntries) : Truthy(dayEntries[k].locationName)

\* C4: a photo that enters with latitude and longitude (0 included) leaves
\* with the same latitude and longitude.
C4_NativeCoordsKept ==
    \A i \in 1..Len(input) :
        Native(input[i]) =>
            /\ photos[i].latitude = input[i].latitude
            /\ photos[i].longitude = input[i].longitude

\* C5: a photo that enters with a locationName leaves with the same
\* locationName.
C5_EntryNameKept ==
    \A i \in 1..Len(input) :
        input[i].locationName # NULL => photos[i].locationName = input[i].locationName

\* C6: every photo with a timestamp is in the group of the calendar date of
\* its timestamp, once, and in no other group.
C6_OneGroupPerPhoto ==
    pc # "request" =>
        \A i \in 1..Len(input) :
            input[i].date # NULL =>
                /\ input[i].date \div DayLen \in DOMAIN photosByDay
                /\ \A day \in DOMAIN photosByDay :
                       Occurrences(photosByDay[day], i) =
                           IF day = input[i].date \div DayLen THEN 1 ELSE 0

\* two photos of one date have been grouped
C6_Witness ==
    /\ pc = "B1"
    /\ \E day \in DOMAIN photosByDay : Len(photosByDay[day]) >= 2

\* C7: after the coordinate stage every photo with a timestamp has a
\* latitude and a longitude and every day has a coordinate; when no photo
\* of the body has a coordinate, the album, every day and every photo with
\* a timestamp are at the default coordinate.
C7_EveryoneLocated ==
    Grouped =>
        /\ \A i \in 1..Len(photos) : photos[i].date # NULL => Native(photos[i])
        /\ \A k \in 1..Len(sortedDays) :
               sortedDays[k] \in DOMAIN dayCoords /\ Native(dayCoords[sortedDays[k]])
        /\ (\A i \in 1..Len(input) : ~Native(input[i])) =>
               /\ AtDefault(albumCoords)
               /\ \A day \in DOMAIN dayCoords : AtDefault(dayCoords[day])
               /\ \A i \in 1..Len(photos) : photos[i].date # NULL => AtDefault(photos[i])

\* the coordinate stage has run on a body of two days without any coordinate
C7_Witness ==
    /\ pc = "B1"
    /\ Len(sortedDays) = 2
    /\ \A i \in 1..Len(input) : ~Native(input[i])

\* C8: the album coordinate is that of the chronologically first photo with
\* a native coordinate among the days of index >= 1, and the default when
\* there is none.
C8_AlbumCoordinate ==
    Grouped =>
        IF LaterNatives = {} THEN AtDefault(albumCoords)
        ELSE \E i \in LaterNatives :
                /\ \A j \in LaterNatives : input[i].date <= input[j].date
                /\ albumCoords.latitude = input[i].latitude
                /\ albumCoords.longitude = input[i].longitude

\* C9: the day coordinate is the native coordinate of the latest photo of
\* the day that has one, and the album coordinate when the day has none.
C9_DayCoordinate ==
    Grouped =>
        \A day \in DOMAIN dayCoords :
            IF DayNatives(day) = {}
            THEN /\ dayCoords[day].latitude = albumCoords.latitude
                 /\ dayCoords[day].longitude = albumCoords.longitude
            ELSE \E i \in DayNatives(day) :
                    /\ \A j \in DayNatives(day) : input[j].date <= input[i].date
                    /\ dayCoords[day].latitude = input[i].latitude
                    /\ dayCoords[day].longitude = input[i].longitude

\* C10: a photo with a timestamp and no coordinate receives the coordinate
\* of a photo of its day with a native coordinate at the least distance in
\* time, and the day coordinate when the day has no such photo.
C10_TimeNearestBackfill ==
    (pc # "request" /\ sortedDays # << >>) =>
        \A i \in 1..Len(input) :
            (input[i].date # NULL /\ ~Native(input[i])) =>
                LET day == input[i].date \div DayLen
                IN IF DayNatives(day) = {}
                   THEN /\ photos[i].latitude = dayCoords[day].latitude
                        /\ photos[i].longitude = dayCoords[day].longitude
                   ELSE \E n \in DayNatives(day) :
                           /\ \A m \in DayNatives(day) :
                                  Abs(input[i].date - input[n].date)
                                      <= Abs(input[i].date - input[m].date)
                           /\ photos[i].latitude = input[n].latitude
                           /\ photos[i].longitude = input[n].longitude

\* C11: the coordinate written onto a photo by the backfill is never read
\* from a photo that the backfill of the same run has written before.
C11_BackfillReadsNative ==
    Grouped =>
        \A i \in 1..Len(input) :
            LET from == A3Source(input, i, dayCoords, albumCoords)
            IN (from # NULL /\ from # 0) =>
                   A3Source(input, from, dayCoords, albumCoords) = NULL

C12_TimeoutReturnsUnresolved ==
    pc # "crashed" /\ \A f \in inflight : ~f.late

\* C14: on an album without any photo with a timestamp the invocation forms
\* no day group, writes no row, sends no geocoding request, and responds
\* with success and with zero updated photos and zero updated days.
C14_EmptyAlbum ==
    (/\ pc = "done"
     /\ Truthy(albumId)
     /\ response.status # 500
     /\ \A i \in 1..Len(input) : input[i].taken_at = NULL) =>
        /\ sortedDays = << >>
        /\ photos = input
        /\ rowsWritten = [photos |-> 0, dayEntries |-> 0]
        /\ requests = << >>
        /\ response.status = 200
        /\ response.photosUpdated = 0
        /\ response.dayEntriesUpdated = 0

\* C15: an invocation whose body has no albumId does no work: it sends no
\* statement to the database and no geocoding request and enriches nothing.
C15_NoAlbumIdNoWork ==
    ~Truthy(albumId) =>
        /\ dbOps = 0
        /\ requests = << >>
        /\ photos = input
        /\ dayEntries = << >>

\* C16: every update of a write batch is attempted whatever the outcome of
\* the others, and the counts of the response are the numbers of rows that
\* the updates have changed.
C16_CountsAreRowsWritten ==
    (pc = "done" /\ response.status = 200 /\ sortedDays # << >>) =>
        /\ dbOps = 1 + Len(photoUpdates) + Len(sortedDays)
        /\ response.photosUpdated = rowsWritten.photos
        /\ response.dayEntriesUpdated = rowsWritten.dayEntries


\* the French words of the title format, by day of week and by month
WeekdayWord(dayOfWeek) ==
    CASE dayOfWeek = 0 -> "dimanche" [] dayOfWeek = 1 -> "lundi" [] dayOfWeek = 2 -> "mardi"
      [] dayOfWeek = 3 -> "mercredi" [] dayOfWeek = 4 -> "jeudi" [] dayOfWeek = 5 -> "vendredi"
      [] dayOfWeek = 6 -> "samedi"

MonthWord(month) ==
    CASE month = 0 -> "janvier" [] month = 1 -> "fevrier" [] month = 2 -> "mars"
      [] month = 3 -> "avril" [] month = 4 -> "mai" [] month = 5 -> "juin"
      [] month = 6 -> "juillet" [] month = 7 -> "aout" [] month = 8 -> "septembre"
      [] month = 9 -> "octobre" [] month = 10 -> "novembre" [] month = 11 -> "decembre"

TitleFormat(n, date, locationName) ==
    <<"J", n, ", ", WeekdayWord(GetDay(date)), " ", GetDate(date), " ", MonthWord(GetMonth(date))>>
    \o (IF Truthy(locationName) THEN <<", ", locationName>> ELSE << >>)

\* C19: a generated title, by calculateDayTitle or by update-day-titles, is
\* 'J' n ', ' weekday ' ' dayOfMonth ' ' month, followed by ', ' and the
\* location name when there is one and by nothing otherwise, the weekday and
\* the month being the French words for the date's day of week (0 = Sunday)
\* and month (0 = January).
C19_TitleFormat ==
    /\ pc = "shown" =>
          dayTitle = TitleFormat(input.dayNumber, input.day.date, CoverName(input.day))
    /\ pc = "generated" =>
          dayTitle = TitleFormat(input.dayNumber, input.day.date, input.day.location_name)

\* Monday 14 July as day 1: with a name, and without one
C19_Witness ==
    /\ pc = "generated"
    /\ input.day.location_name = 9
    /\ dayTitle = <<"J", 1, ", ", "lundi", " ", 14, " ", "juillet", ", ", 9>>

C19_WitnessNoName ==
    /\ pc = "shown"
    /\ input.day.cover_photo = << >>
    /\ dayTitle = <<"J", 1, ", ", "lundi", " ", 14, " ", "juillet">>


\* C17: the description of a day entry is the one it had, and a day entry
\* whose title the user has saved by hand carries that title, whatever
\* title runs and day updates of the pipeline have happened since.
C17_HandEditsKept ==
    \A k \in DOMAIN day_entries :
        /\ day_entries[k].description = input[k].description
        /\ day_entries[k].id \in DOMAIN handTitles =>
              day_entries[k].title = handTitles[day_entries[k].id]


\* the dates of the timestamped photos of the album
PhotoDays == {DayKey(photos[i].taken_at) : i \in {j \in DOMAIN photos : photos[j].taken_at # NULL}}

EntriesOf(date) == {k \in DOMAIN day_entries : day_entries[k].date = date}

\* C18: once the uploads have ended and the pipeline has run, every date
\* that has a timestamped photo in the album has exactly one day entry.
C18_OneEntryPerPhotoDay ==
    pc = "done" => \A date \in PhotoDays : Cardinality(EntriesOf(date)) = 1

\* no date ever has two day entries, and no day entry disappears
C18_NeverDuplicated ==
    /\ \A date \in Days : Cardinality(EntriesOf(date)) <= 1
    /\ \A k \in DOMAIN day_entries : k <= Len(day_entries) /\ day_entries[k].id = k

\* two uploads of the same date both found no entry and both inserted
C18_RaceWitness ==
    /\ pc = "done"
    /\ Len(input) = 2 /\ input[1] # NULL /\ input[2] # NULL /\ DayKey(input[1]) = DayKey(input[2])
    /\ Cardinality(EntriesOf(DayKey(input[1]))) = 1
    /\ Len(photos) = 2


\* 1-based position of a date among a set of dates, in ascending order
PositionIn(date, dates) == Cardinality({d \in dates : d <= date})

\* the dates of the album: those of its earlier photos and of the request
AlbumDates ==
    {day_entries[k].date : k \in DOMAIN day_entries} \cup {sortedDays[k] : k \in DOMAIN sortedDays}

\* C20: the day number in the title of a day is the 1-based position of
\* its date among all the dates with photos in the album, those of the
\* request and those the album held before.
C20_IndexOverAlbum ==
    pc = "done" =>
        \A k \in DOMAIN dayEntries :
            dayEntries[k].title[1] = PositionIn(dayEntries[k].date, AlbumDates)

\* update-day-titles numbers the day entries of the album J1..Jn by date
C20_TitleRunNumbered ==
    pc = "titles" =>
        /\ Len(updates) = Len(day_entries)
        /\ \A u \in DOMAIN updates : \E k \in DOMAIN day_entries :
              /\ day_entries[k].id = updates[u].id
              /\ updates[u].title[2] =
                    PositionIn(day_entries[k].date, {day_entries[j].date : j \in DOMAIN day_entries})


\* the photos of a day, by position in the request
DayMembers(day) == {i \in 1..Len(input) : input[i].date # NULL /\ input[i].date \div DayLen = day}

\* C21: the cover photo of a day is a photo of that day with the latest
\* timestamp among those that have a native coordinate, or, when the day
\* has none, with the latest timestamp of the day.
C21_CoverPhoto ==
    Grouped =>
        \A day \in DOMAIN dayCoords :
            LET candidates == IF DayNatives(day) = {} THEN DayMembers(day) ELSE DayNatives(day)
            IN \E i \in candidates :
                  /\ \A j \in candidates : input[j].date <= input[i].date
                  /\ dayCoords[day].coverPhotoId = input[i].id


\* the quantized keys of the day coordinates, which B1 resolves
AnchorKeys == {CoordKey(dayCoords[d].latitude, dayCoords[d].longitude) : d \in DOMAIN dayCoords}

\* the dated photos less than the proximity threshold away from the
\* coordinate of their day
NearAnchor ==
    {i \in 1..Len(photos) :
        /\ photos[i].date # NULL
        /\ photos[i].latitude # NULL /\ photos[i].longitude # NULL
        /\ calculateHaversineDistance(photos[i].latitude, photos[i].longitude,
               dayCoords[DayKey(photos[i].date)].latitude,
               dayCoords[DayKey(photos[i].date)].longitude) < ProximityMetres}

\* C22: at the end of a run a photo less than the proximity threshold away
\* from its day's coordinate carries the name of the day when the day has
\* one, and the only request for the key of its coordinate, if any, is the
\* one that resolved a day coordinate.
C22_NearPhotoNoRequest ==
    (pc = "done" /\ sortedDays # << >>) =>
        \A i \in NearAnchor :
            LET day == DayKey(photos[i].date)
                key == CoordKey(photos[i].latitude, photos[i].longitude)
            IN /\ day \in DOMAIN dayLocations => photos[i].locationName = dayLocations[day]
               /\ Occurrences(requests, key) <= (IF key \in AnchorKeys THEN 1 ELSE 0)


\* a step that ends the work on the day at dayCursor
LeavesDay ==
    /\ pc \in {"B2", "B3"}
    /\ pc' # "B3"
    /\ pc' = "titles" \/ dayCursor' # dayCursor

Undated == {i \in 1..Len(input) : input[i].date = NULL}

\* C24: a photo without a timestamp leaves the run as it entered it
\* (latitude, longitude, locationName, dayTitle), belongs to no day group,
\* is the cover photo of no day, and no day coordinate is read from it:
\* a day coordinate is the album coordinate or that of a dated photo of
\* the day.
C24_UndatedUntouched ==
    /\ \A i \in Undated : photos[i] = input[i]
    /\ Grouped =>
          \A day \in DOMAIN dayCoords :
              /\ \A i \in Undated :
                    /\ i \notin Range(photosByDay[day])
                    /\ dayCoords[day].coverPhotoId # input[i].id
              /\ \/ /\ dayCoords[day].latitude = albumCoords.latitude
                    /\ dayCoords[day].longitude = albumCoords.longitude
                 \/ \E j \in DayMembers(day) :
                       /\ dayCoords[day].latitude = input[j].latitude
                       /\ dayCoords[day].longitude = input[j].longitude

\* a run has ended that titled a dated photo, next to a photo without a
\* date that entered with coordinates and a name
C24_Witness ==
    /\ pc = "done"
    /\ \E i \in Undated : Native(input[i]) /\ Truthy(input[i].locationName)
    /\ \E j \in 1..Len(photos) : photos[j].dayTitle # << >>


\* latitude, longitude and location_name of the rows of a table
Located(rows) ==
    [k \in 1..Len(rows) |-> <<rows[k].latitude, rows[k].longitude, rows[k].location_name>>]

\* C25: when every update of the first run of update-album-metadata
\* succeeded, the second run, given the same answers by the resolver,
\* leaves latitude, longitude and location_name of every photo and of every
\* day entry as the first run left them.
C25_SecondRunChangesNothing ==
    (run = 2 /\ firstResponse.written) =>
        /\ Located(photos) = Located(firstResponse.photos)
        /\ Located(day_entries) = Located(firstResponse.dayEntries)


\* the photo that the next turn of the B3 loop submits to the resolver
Target == WithoutLocation(photos, photosByDay[sortedDays[dayCursor]])[1]

\* C26: within the loop of one day, a turn is never followed by a turn on
\* the same photo: each attempt submits a photo that no earlier attempt of
\* the day has submitted.
C26_AttemptsOnDistinctPhotos ==
    [][(pc = "B3" /\ pc' = "B3") => Target' # Target]_vars


\* C27: when the promise of applyCoordinatesAndLocationLogic has resolved,
\* no lookup it started is still awaiting its answer, and every photo whose
\* own lookup was started and brought back a name carries a locationName.
C27_LookupsDoneWhenResolved ==
    (pc = "done" /\ sortedDays # << >>) =>
        /\ inflight = {}
        /\ \A i \in 1..Len(photos) :
              (/\ ClientLocated(photos[i])
               /\ ClientFar(photos[i])
               /\ Truthy(CacheGet(locationCache,
                      CoordKey(photos[i].latitude, photos[i].longitude))))
                 => Truthy(photos[i].locationName)


\* C28: whenever DayView sets the data of a day entry, the photos it lists
\* are those of the album's photos that the pipeline groups under the date
\* of the entry, the photos of the last second of the day included.
C28_ListedAsGrouped ==
    [][(view' # view /\ view' # << >>) =>
          view'[1].photos = GroupedUnder(photos', view'[1].dayEntry.date)]_vars

\* the titles of the table are those that a run of update-day-titles
\* on the table writes: a run has ended and nothing was changed since
TitlesCurrent ==
    /\ pc = "done"
    /\ response.status = 200
    /\ day_entries # << >>
    /\ LET sorted == SortByDate(day_entries, DOMAIN day_entries)
       IN \A k \in 1..Len(sorted) :
             day_entries[sorted[k]].title = TitleUpdate(day_entries[sorted[k]], k - 1).title

\* the page shows the day entry and the photos as they are stored
ViewCurrent ==
    /\ view # << >>
    /\ view = <<DayViewData(day_entries, photos, view[1].dayEntry.id, view[1].coverPhoto)>>

\* C29: once a run of update-day-titles has ended, the titles that DayView
\* computes with calculateDayTitle for a day, in the header and for the
\* photo modal, are the title stored in the day entry.
C29_ViewTitleIsStoredTitle ==
    (TitlesCurrent /\ ViewCurrent) =>
        /\ HeaderTitle = view[1].dayEntry.title
        /\ ModalTitle = view[1].dayEntry.title


\* the rows of table photos inserted for file f of the selection
RowsOf(f) == {k \in DOMAIN photos : photos[k].id = f}

\* C30: whatever the invocations of uploadFiles on one selection, a retry
\* after a failed upload included, each file of the selection has at most
\* one row in table photos.
C30_OneRowPerFile ==
    \A f \in DOMAIN input : Cardinality(RowsOf(f)) <= 1

====
